---- MODULE Spec2Model ----
(***************************************************************************)
(* The agent loop of webserver/answer.rs: one turn of the conversational   *)
(* code-search agent, from the HTTP handler to the end of the event        *)
(* stream.  A turn is the async generator of _handle (the agent loop, the  *)
(* post-step drain, the result match, the store call), raced against the   *)
(* planner step future through the bounded update channel, and wrapped by  *)
(* the panic catcher and the init/[DONE] events.                           *)
(*                                                                         *)
(* Atomicity follows the cooperative scheduler: the generator and the step *)
(* future run from one suspension point to the next.  While the step       *)
(* future is being polled (running = TRUE) only its own synchronous        *)
(* operations are enabled; the client can drop the stream, time can pass   *)
(* and the timer can fire only when everything is suspended.               *)
(***************************************************************************)
EXTENDS Integers, Sequences, FiniteSets, TLC

VARIABLES
    pc,         \* position of the handler / event stream
    action,     \* the action the current iteration executes (Action variant)
    next,       \* `next` of the loop: follow-up action kind, or "none"
    ops,        \* what is left of the running Agent::step future
    running,    \* TRUE while the step future is being polled
    chan,       \* the update channel (exchange_tx / exchange_rx)
    pushed,     \* the updates applied to the exchange (Agent::update), in order
    nSteps,     \* number of search steps of the turn's exchange
    events,     \* the server-sent events delivered so far
    analytics,  \* the events handed to the analytics sink
    agentAlive, \* the Agent value exists (constructed and not yet dropped)
    complete,   \* Agent.complete
    result,     \* `result` of the outer loop, "none" while it runs
    store,      \* writes that took effect in the conversation store
    stage,      \* where the turn was when the client dropped the stream
    timer,      \* seconds since the per-item timeout's deadline was last reset
    elapsed,    \* seconds since the current iteration began (up to MaxElapsed)
    sinceItem,  \* seconds since the iteration began or last produced an item
    acts,       \* the actions executed in the turn, with what each one did
    fwdBy,      \* which parts of the loop have forwarded a snapshot so far
    errAt,      \* events on the stream when the `error` analytics event was sent
    tpc,        \* position of the request / turn at the level of the conversation
    loaded,     \* the exchanges conversations::load returned
    parent,     \* Params.parent_exchange_id
    qkind,      \* what parser::parse_nl makes of Params.q
    exchanges,  \* `exchanges` of _handle, later Agent.exchanges
    tact,       \* the Action that Agent::step executes, with its arguments
    ups,        \* the step updates the current action pushed (Agent::update)
    reads,      \* searches and file reads the current action has done
    functions,  \* the function schema of the latest planner completion
    given,      \* the (path, alias) pairs get_path_alias returned in this turn
    terr,       \* the error that ended the turn
    nActs,      \* actions the turn has begun
    fname,      \* the function applied on its own, "none" when none is
    fin,        \* its arguments
    fout,       \* <<>> until it returned, then <<value returned>>
    pipe        \* the two buffered stages of process_files, or the loop of
                \* canonicalize_code_chunks; <<>> when neither runs

vars == <<pc, action, next, ops, running, chan, pushed, nSteps, events,
          analytics, agentAlive, complete, result, store, stage, timer,
          elapsed, sinceItem, acts, fwdBy, errAt, tpc, loaded, parent, qkind,
          exchanges, tact, ups, reads, functions, given, terr, nActs,
          fname, fin, fout, pipe>>

\* the state of the loop, the channel and the stream
loopVars == <<pc, action, next, ops, running, chan, pushed, nSteps, events,
              analytics, agentAlive, complete, result, store, stage, timer,
              elapsed, sinceItem, acts, fwdBy, errAt>>

\* the state of the conversation: its exchanges and what the tools did to them
toolVars == <<tpc, loaded, parent, qkind, exchanges, tact, ups, reads,
              functions, given, terr, nActs, fname, fin, fout, pipe>>

\* a function of the file applied on its own
fnVars == <<fname, fin, fout, pipe>>

\* what Agent::step works on
stepVars == <<tact, ups, reads, functions, given, terr, nActs>>

\* the request as the handler received it
reqVars == <<loaded, parent, qkind>>

-----------------------------------------------------------------------------
(* Program constants *)

TIMEOUT_SECS == 60

ChannelCapacity == 10

HEADROOM == 2048

ContextSize == 8192

(* Bounds of the model *)

\* seconds that pass in one Tick
TickSecs == 30

\* token cost of the smallest message; every message costs a multiple of it
TokUnit == 1500

\* fragments the answer model may stream in one Answer action
MaxFragments == 5

\* cap on the actions of one turn
MaxActions == 4

\* exchanges a stored conversation may hold
MaxStored == 2

\* distinct file paths of the repository
NumPaths == 2

\* results one search returns, and aliases one action names
MaxResults == 2

\* cap on the actions of one turn at the level of the conversation
MaxToolActions == 3
\* longest history given to trim_history
MaxMsgs == 4
\* most lines given to trim_lines_by_tokens, and most tokens of a line
MaxLines == 3
MaxLineTokens == 2
\* most line ranges in a reply of the per-file language model call
MaxRanges == 3
\* most files of a proc action
MaxProcFiles == 16
\* tokens of one line of an indexed file
LineTokens == 40

\* the iteration clock `elapsed` stops counting here
MaxElapsed == 90

-----------------------------------------------------------------------------
(* Messages and the token budget of the planner history *)

HIDDEN == "[HIDDEN]"

Msg(role, content, tok) == [role |-> role, content |-> content, tok |-> tok]

RECURSIVE SumTok(_)
SumTok(h) == IF h = <<>> THEN 0 ELSE Head(h).tok + SumTok(Tail(h))

\* tiktoken_rs::get_chat_completion_max_tokens: context size minus prompt tokens
CompletionMaxTokens(h) ==
    IF SumTok(h) >= ContextSize THEN 0 ELSE ContextSize - SumTok(h)

TrimmableAnyRole(m) == m.content # HIDDEN

Trimmable(m) ==
    \/ m.role \in {"user", "assistant"} /\ m.content # HIDDEN
    \/ m.role = "function" /\ m.content # HIDDEN

Hide(m) == [m EXCEPT !.content = HIDDEN, !.tok = TokUnit]

HideNewest(h) ==
    IF \A i \in 1..Len(h) : ~Trimmable(h[i]) THEN h
    ELSE LET i == CHOOSE i \in 1..Len(h) :
                      /\ Trimmable(h[i])
                      /\ \A j \in (i + 1)..Len(h) : ~Trimmable(h[j])
         IN  [h EXCEPT ![i] = Hide(h[i])]

RECURSIVE HideFirst(_)
HideFirst(h) ==
    IF h = <<>> THEN <<>>
    ELSE IF Trimmable(Head(h)) THEN <<Hide(Head(h))>> \o Tail(h)
    ELSE <<Head(h)>> \o HideFirst(Tail(h))

RECURSIVE TrimHistory(_)
TrimHistory(h) ==
    IF CompletionMaxTokens(h) >= HEADROOM THEN [ok |-> TRUE, msgs |-> h]
    ELSE IF \E i \in 1..Len(h) : Trimmable(h[i])
         THEN TrimHistory(HideFirst(h))
         ELSE [ok |-> FALSE, msgs |-> <<>>]

RECURSIVE StepMsgs(_)
StepMsgs(n) ==
    IF n = 0 THEN <<>>
    ELSE StepMsgs(n - 1) \o <<Msg("function_call", "call", TokUnit),
                              Msg("function", "response", 2 * TokUnit)>>

\* Agent::history behind the system message, for an exchange with n steps
History(n) ==
    <<Msg("system", "system", TokUnit), Msg("user", "query", 2 * TokUnit)>>
        \o StepMsgs(n)

-----------------------------------------------------------------------------
(* The step future as the list of its remaining operations *)

\* updates: StartStep, ReplaceStep, Article, Conclude with the summary of the
\* footnote, Conclude with one of the three fallback phrases
Pushes == {"pushS", "pushR", "pushA", "pushC", "pushD"}

Awaits == {"start", "await", "awaitF", "awaitP"}

Tracks == {"trk_query", "trk_tool", "trk_llm", "trk_answer"}

PlanOps == <<"trim", "chat", "awaitF", "awaitF", "trk_llm", "reply">>

QueryOps == <<"start", "trk_query">> \o PlanOps

PathOps(semantic) ==
    <<"start", "pushS", "await">>
        \o (IF semantic THEN <<"awaitF">> ELSE <<>>)
        \o <<"pushR", "trk_tool">> \o PlanOps

CodeOps(hyde) ==
    <<"start", "pushS", "awaitF", "awaitF">>
        \o (IF hyde THEN <<"awaitF">> ELSE <<>>)
        \o <<"pushR", "trk_tool">> \o PlanOps

ProcOps == <<"start", "check", "pushS", "await", "pushR", "trk_tool">> \o PlanOps

RECURSIVE FragmentOps(_, _)
FragmentOps(nf, plain) ==
    IF nf = 0 THEN <<>>
    ELSE FragmentOps(nf - 1, plain)
            \o (IF nf <= plain THEN <<"awaitF", "pushA">>
                ELSE <<"awaitF", "pushA", "pushC">>)

AnswerTailPlans == PlanOps

\* `return Ok(None)` of the Answer arm
AnswerTail == <<"ret">>

AnswerOpsNoConclude(nf, plain) ==
    <<"start", "awaitP", "awaitF">> \o FragmentOps(nf, plain)
        \o <<"awaitF", "trk_answer">> \o AnswerTail

\* Agent::answer for a response of nf fragments, the first `plain` of which
\* leave it without a summary footnote: behind the stream the summary is the
\* footnote's if the response has one, else a fallback phrase
AnswerOps(nf, plain) ==
    <<"start", "awaitP", "awaitF">> \o FragmentOps(nf, plain)
        \o <<"awaitF", IF nf > plain THEN "pushC" ELSE "pushD", "trk_answer">>
        \o AnswerTail

OpsFor(kind) ==
    CASE kind = "query"  -> {QueryOps}
      [] kind = "path"   -> {PathOps(s) : s \in BOOLEAN}
      [] kind = "code"   -> {CodeOps(s) : s \in BOOLEAN}
      [] kind = "proc"   -> {ProcOps}
      [] kind = "answer" -> {AnswerOps(nf, p) : nf \in 0..MaxFragments, p \in 0..MaxFragments}

-----------------------------------------------------------------------------
(* Events *)

InitEvent == [t |-> "init", id |-> 0, msg |-> ""]

\* exchange.compressed()
Snapshot(n) == [t |-> "snap", id |-> n, msg |-> ""]

ErrEvent(m) == [t |-> "err", id |-> 0, msg |-> m]

DoneEvent == [t |-> "done", id |-> 0, msg |-> ""]

\* what the stream carries for a failed turn: `Err(e)?`, or the caught panic
ErrEvents(m) == <<ErrEvent(m)>>

DoneEventsMissing == <<>>

\* done_stream, chained behind the answer stream
DoneEvents == <<DoneEvent>>

ChanRecvNewest(q) == [item |-> q[Len(q)], rest |-> SubSeq(q, 1, Len(q) - 1)]

\* the receiving end of the update channel: the oldest buffered snapshot
ChanRecv(q) == [item |-> Head(q), rest |-> Tail(q)]

DrainSkipped(q) == TRUE

\* the post-step drain ends when the channel has nothing buffered
DrainDone(q) == q = <<>>

DeadlineNotReset(t) == t

\* tokio_stream's timeout resets its deadline whenever the stream yields an item
DeadlineAfterItem(t) == 0

CancelOnEveryDrop(c) == TRUE

\* Drop for Agent: the cancellation event is sent unless complete was set
CancelOnDrop(c) == ~c

DropAgentEvents(c) == IF CancelOnDrop(c) THEN <<"cancelled">> ELSE <<>>

CompleteForgotten == FALSE

\* Agent::complete, called once the store call returned Ok
CompleteAfterStore == TRUE

ProceedsToStoreAlways(r) == TRUE

\* `match result`: only Ok falls through to the store call
ProceedsToStore(r) == r = "ok"

ErrorEventOf(r) == IF r = "timeout" THEN "error_timeout" ELSE "error_message"

ErrorAnalyticsNone(r) == <<>>

\* the `error` event the result match hands to analytics before it yields Err
ErrorAnalytics(r) == <<ErrorEventOf(r)>>

LastAct == acts[Len(acts)]

SetLast(field, v) == [acts EXCEPT ![Len(acts)][field] = v]

NewAct(kind) == [kind |-> kind, planned |-> FALSE, ret |-> "running"]

\* snapshots that were put on the update channel so far
Sent == IF ops # <<>> /\ Head(ops) = "send" THEN Len(pushed) - 1 ELSE Len(pushed)

Forwarded == SelectSeq(events, LAMBDA e : e.t = "snap")

-----------------------------------------------------------------------------
(* The conversation: exchanges, their paths and code chunks *)

\* parent_exchange_id: None
Absent == 0 - 1

\* Uuid::nil()
Nil == 0

\* Option
None == <<>>

Some(x) == <<x>>

Exchange(id, paths, chunks) == [id |-> id, paths |-> paths, chunks |-> chunks]

CodeChunk(path, alias, snippet) == [path |-> path, alias |-> alias, snippet |-> snippet]

\* ids are version-4 uuids: distinct, never nil
StoredId(i) == MaxStored + 1 - i

\* query_id of the request being handled
QueryId == MaxStored + 1

\* a conversation as an earlier turn stored it: exchange i either found nothing
\* or found path i and one chunk of it
StoredConversation(n, f) ==
    [i \in 1..n |->
        IF f[i]
        THEN Exchange(StoredId(i), <<i>>,
                      <<CodeChunk(i, Cardinality({j \in 1..(i - 1) : f[j]}), <<"x">>)>>)
        ELSE Exchange(StoredId(i), <<>>, <<>>)]

StoredConversations ==
    UNION {{StoredConversation(n, f) : f \in [1..n -> BOOLEAN]} : n \in 0..MaxStored}

ParentIds == Absent..(MaxStored + 2)

\* plain: a semantic query with a plain-text target; the others fail a `?`
QueryKinds == {"plain", "unparseable", "grep", "empty"}

\* iter().position(|e| e.id == id): the first index (from 0), or None (Absent)
PositionOfId(exs, id) ==
    IF \E i \in 1..Len(exs) : exs[i].id = id
    THEN (CHOOSE i \in 1..Len(exs) :
              /\ exs[i].id = id
              /\ \A j \in 1..(i - 1) : exs[j].id # id) - 1
    ELSE Absent

TruncateFront(exs, n) ==
    IF n >= Len(exs) THEN exs ELSE SubSeq(exs, Len(exs) - n + 1, Len(exs))

\* Vec::truncate(n): keeps the first n elements, no effect when n >= len
Truncate(exs, n) == IF n >= Len(exs) THEN exs ELSE SubSeq(exs, 1, n)

TruncateFromParent(pos) == pos

\* truncate_from_index for a parent found at index pos
TruncateFrom(pos) == pos + 1

\* Agent::paths: the paths of all exchanges, oldest exchange first
RECURSIVE AllPaths(_)
AllPaths(exs) ==
    IF exs = <<>> THEN <<>>
    ELSE AllPaths(SubSeq(exs, 1, Len(exs) - 1)) \o exs[Len(exs)].paths

\* Agent::code_chunks
RECURSIVE AllChunks(_)
AllChunks(exs) ==
    IF exs = <<>> THEN <<>>
    ELSE AllChunks(SubSeq(exs, 1, Len(exs) - 1)) \o exs[Len(exs)].chunks

\* iter().position(|p| *p == path): the first index (from 0), or None (Absent)
PositionOf(ps, p) ==
    IF \E i \in 1..Len(ps) : ps[i] = p
    THEN (CHOOSE i \in 1..Len(ps) :
              /\ ps[i] = p
              /\ \A j \in 1..(i - 1) : ps[j] # p) - 1
    ELSE Absent

LookupSkipped(ps, p) == Absent

\* the lookup get_path_alias does before it lists a path
Lookup(ps, p) == PositionOf(ps, p)

\* Agent::get_path_alias: the alias, and the exchanges with the path listed
GetPathAlias(exs, p) ==
    LET ps == AllPaths(exs)
        pos == Lookup(ps, p)
    IN  IF pos # Absent
        THEN [alias |-> pos, exs |-> exs]
        ELSE [alias |-> Len(ps),
              exs |-> [exs EXCEPT ![Len(exs)].paths = Append(@, p)]]

\* get_path_alias over a list of paths, in order
RECURSIVE AliasAll(_, _)
AliasAll(exs, ps) ==
    IF ps = <<>> THEN [exs |-> exs, aliases |-> <<>>]
    ELSE LET r == GetPathAlias(exs, Head(ps))
             rest == AliasAll(r.exs, Tail(ps))
         IN  [exs |-> rest.exs, aliases |-> <<r.alias>> \o rest.aliases]

\* snippets: nothing, white space only, code
Snippets == {<<>>, <<" ">>, <<"x">>}

\* str::trim
RECURSIVE Trim(_)
Trim(t) ==
    IF t = <<>> THEN <<>>
    ELSE IF Head(t) = " " THEN Trim(Tail(t))
    ELSE IF t[Len(t)] = " " THEN Trim(SubSeq(t, 1, Len(t) - 1))
    ELSE t

IsEmptyUntrimmed(c) == c.snippet = <<>>

\* CodeChunk::is_empty
IsEmpty(c) == Trim(c.snippet) = <<>>

\* code_chunks.push for every chunk that is not empty
PushChunks(exs, cs) ==
    [exs EXCEPT ![Len(exs)].chunks = @ \o SelectSeq(cs, LAMBDA c : ~IsEmpty(c))]

\* String::new()
EmptyResponse == <<>>

\* serde_json::to_string(value)
Json(v) == <<v>>

StartStep(variant, query, paths) ==
    [kind |-> "StartStep", variant |-> variant, query |-> query, paths |-> paths,
     response |-> EmptyResponse]

ReplaceStepAsStart(variant, query, paths, response) ==
    [kind |-> "StartStep", variant |-> variant, query |-> query, paths |-> paths,
     response |-> response]

ReplaceStep(variant, query, paths, response) ==
    [kind |-> "ReplaceStep", variant |-> variant, query |-> query, paths |-> paths,
     response |-> response]

\* an Action with its arguments
Act(kind, query, aliases) == [kind |-> kind, query |-> query, aliases |-> aliases]

NoError == [msg |-> "", alias |-> Absent]

\* the step-level variables while no turn runs
StepIdle ==
    /\ tact = Act("idle", "", <<>>)
    /\ ups = <<>>
    /\ reads = 0
    /\ functions = {}
    /\ given = {}
    /\ terr = NoError
    /\ nActs = 0

\* nothing has been handed to analytics as an `error`
NoErr == 0 - 1

LoopInit ==
    /\ pc = "request"
    /\ action = "none"
    /\ next = "none"
    /\ ops = <<>>
    /\ running = FALSE
    /\ chan = <<>>
    /\ pushed = <<>>
    /\ nSteps = 0
    /\ events = <<>>
    /\ analytics = <<>>
    /\ agentAlive = FALSE
    /\ complete = FALSE
    /\ result = "none"
    /\ store = <<>>
    /\ stage = "none"
    /\ timer = 0
    /\ elapsed = 0
    /\ sinceItem = 0
    /\ acts = <<>>
    /\ fwdBy = {}
    /\ errAt = NoErr

\* the conversation-level variables while the loop-level specification runs
ToolIdle ==
    /\ tpc = "idle"
    /\ loaded = <<>>
    /\ parent = Absent
    /\ qkind = "plain"
    /\ exchanges = <<>>
    /\ StepIdle

\* no function is applied on its own
FnIdle ==
    /\ fname = "none"
    /\ fin = <<>>
    /\ fout = <<>>
    /\ pipe = <<>>

Init == LoopInit /\ ToolIdle /\ FnIdle

-----------------------------------------------------------------------------
(* _handle before the stream: the checks that can refuse the request *)

turnVars == <<action, next, ops, running, chan, pushed, nSteps, agentAlive,
              complete, result, store, stage, timer, elapsed, sinceItem, acts,
              fwdBy>>

\* a `?` of _handle returns a user/internal error; handle() reports it
HandleError ==
    /\ pc = "request"
    /\ pc' = "http_error"
    /\ analytics' = Append(analytics, "error_status")
    /\ UNCHANGED <<events, turnVars>>
    /\ UNCHANGED <<errAt, toolVars>>

\* the compatibility probe answers 406
HandleIncompatible ==
    /\ pc = "request"
    /\ pc' = "rejected"
    /\ events' = <<ErrEvent("incompatible client")>>
    /\ UNCHANGED <<analytics, turnVars>>
    /\ UNCHANGED <<errAt, toolVars>>

\* the compatibility probe fails or answers anything but 200 and 406
HandleProbeFailed ==
    /\ pc = "request"
    /\ pc' = "rejected"
    /\ events' = <<ErrEvent("failed to check compatibility")>>
    /\ UNCHANGED <<analytics, turnVars>>
    /\ UNCHANGED <<errAt, toolVars>>

\* all checks pass: the exchange is pushed and the stream is returned
HandleOk ==
    /\ pc = "request"
    /\ pc' = "open"
    /\ UNCHANGED <<events, analytics, turnVars>>
    /\ UNCHANGED <<errAt, toolVars>>

\* init_stream
SendInit ==
    /\ pc = "open"
    /\ pc' = "inited"
    /\ events' = Append(events, InitEvent)
    /\ UNCHANGED <<analytics, turnVars>>
    /\ UNCHANGED <<errAt, toolVars>>

\* first poll of the generator: the agent is built, the seed action is Query
BeginTurn ==
    /\ pc = "inited"
    /\ pc' = "race"
    /\ action' = "query"
    /\ ops' = QueryOps
    /\ acts' = <<NewAct("query")>>
    /\ agentAlive' = TRUE
    /\ UNCHANGED <<next, running, chan, pushed, nSteps, events, analytics,
                   complete, result, store, stage, timer, elapsed, sinceItem, fwdBy>>
    /\ UNCHANGED <<errAt, toolVars>>

-----------------------------------------------------------------------------
(* Leaving the loop *)

\* `break 'outer` with result r, then `match result`
LoopExit(r) ==
    /\ result' = r
    /\ running' = FALSE
    /\ IF ProceedsToStore(r)
       THEN /\ pc' = "storing"
            /\ UNCHANGED <<events, analytics, errAt>>
       ELSE /\ pc' = "failed"
            /\ analytics' = analytics \o ErrorAnalytics(r)
            /\ errAt' = Len(events)
            /\ events' = events \o ErrEvents(r)

\* a panic while the step is polled: unwinding drops the agent, catch_unwind
\* turns the panic into one Err item
Panic ==
    /\ result' = "panic"
    /\ running' = FALSE
    /\ pc' = "panicked"
    /\ agentAlive' = FALSE
    /\ analytics' = analytics \o DropAgentEvents(complete)
    /\ events' = events \o ErrEvents("stream panicked")

-----------------------------------------------------------------------------
(* The step future: Agent::step and the tools it calls.  It is polled by   *)
(* stream::select, which polls its two sides in an order that alternates   *)
(* with every poll (also the polls that return Pending), so either side    *)
(* may be the first one polled.                                            *)

stepFrame == <<action, next, agentAlive, complete, store, stage, timer,
               elapsed, sinceItem, fwdBy>>

\* the awaited call returned Ok (or the future is polled for the first time)
ResumeOk ==
    /\ pc = "race" /\ ~running
    /\ ops # <<>> /\ Head(ops) \in Awaits
    /\ ops' = Tail(ops)
    /\ running' = TRUE
    /\ UNCHANGED <<pc, chan, pushed, nSteps, events, analytics, result, acts,
                   stepFrame>>
    /\ UNCHANGED <<errAt, toolVars>>

\* the awaited call returned Err: `?` ends the step with a Processing error
ResumeErr ==
    /\ pc = "race" /\ ~running
    /\ ops # <<>> /\ Head(ops) \in {"awaitF", "awaitP"}
    /\ LoopExit("processing")
    /\ acts' = SetLast("ret", "err")
    /\ UNCHANGED <<ops, chan, pushed, nSteps, stepFrame>>
    /\ UNCHANGED toolVars

\* the awaited call hit an unwrap/expect/panic! (canonicalize_code_chunks)
ResumePanic ==
    /\ pc = "race" /\ ~running
    /\ ops # <<>> /\ Head(ops) = "awaitP"
    /\ Panic
    /\ acts' = SetLast("ret", "panic")
    /\ UNCHANGED <<action, next, ops, chan, pushed, nSteps, complete, store,
                   stage, timer, elapsed, sinceItem, fwdBy>>
    /\ UNCHANGED <<errAt, toolVars>>

\* Agent::update: apply the update to the last exchange, then send a clone of
\* it; a full channel suspends the send
DoPush ==
    /\ pc = "race" /\ running
    /\ ops # <<>> /\ Head(ops) \in Pushes
    /\ pushed' = Append(pushed, Head(ops))
    /\ nSteps' = IF Head(ops) = "pushS" THEN nSteps + 1 ELSE nSteps
    /\ IF Len(chan) < ChannelCapacity
       THEN /\ chan' = Append(chan, Len(pushed) + 1)
            /\ ops' = Tail(ops)
            /\ UNCHANGED running
       ELSE /\ ops' = <<"send">> \o Tail(ops)
            /\ running' = FALSE
            /\ UNCHANGED chan
    /\ UNCHANGED <<pc, events, analytics, result, acts, stepFrame>>
    /\ UNCHANGED <<errAt, toolVars>>

\* a suspended send completes once the channel has room
ResumeSend ==
    /\ pc = "race" /\ ~running
    /\ ops # <<>> /\ Head(ops) = "send"
    /\ Len(chan) < ChannelCapacity
    /\ chan' = Append(chan, Len(pushed))
    /\ ops' = Tail(ops)
    /\ running' = TRUE
    /\ UNCHANGED <<pc, pushed, nSteps, events, analytics, result, acts, stepFrame>>
    /\ UNCHANGED <<errAt, toolVars>>

\* Agent::track_query inside the step
DoTrack ==
    /\ pc = "race" /\ running
    /\ ops # <<>> /\ Head(ops) \in Tracks
    /\ analytics' = Append(analytics, Head(ops))
    /\ ops' = Tail(ops)
    /\ UNCHANGED <<pc, running, chan, pushed, nSteps, events, result, acts,
                   stepFrame>>
    /\ UNCHANGED <<errAt, toolVars>>

\* process_files resolves the aliases before anything else
DoCheckOk ==
    /\ pc = "race" /\ running
    /\ ops # <<>> /\ Head(ops) = "check"
    /\ ops' = Tail(ops)
    /\ UNCHANGED <<pc, running, chan, pushed, nSteps, events, analytics, result,
                   acts, stepFrame>>
    /\ UNCHANGED <<errAt, toolVars>>

DoCheckErr ==
    /\ pc = "race" /\ running
    /\ ops # <<>> /\ Head(ops) = "check"
    /\ LoopExit("processing")
    /\ acts' = SetLast("ret", "err")
    /\ UNCHANGED <<ops, chan, pushed, nSteps, stepFrame>>
    /\ UNCHANGED toolVars

\* history()? and trim_history(history)?
DoTrim ==
    /\ pc = "race" /\ running
    /\ ops # <<>> /\ Head(ops) = "trim"
    /\ IF TrimHistory(History(nSteps)).ok
       THEN /\ ops' = Tail(ops)
            /\ UNCHANGED <<pc, running, events, analytics, result, acts, errAt>>
       ELSE /\ LoopExit("processing")
            /\ acts' = SetLast("ret", "err")
            /\ UNCHANGED ops
    /\ UNCHANGED <<chan, pushed, nSteps, stepFrame>>
    /\ UNCHANGED toolVars

\* llm_gateway.chat(trimmed history, functions): the planner completion
DoChat ==
    /\ pc = "race" /\ running
    /\ ops # <<>> /\ Head(ops) = "chat"
    /\ acts' = SetLast("planned", TRUE)
    /\ ops' = Tail(ops)
    /\ UNCHANGED <<pc, running, chan, pushed, nSteps, events, analytics, result,
                   stepFrame>>
    /\ UNCHANGED <<errAt, toolVars>>

\* the step reaches an await whose call has not returned: Pending
DoSuspend ==
    /\ pc = "race" /\ running
    /\ ops # <<>> /\ Head(ops) \in Awaits
    /\ running' = FALSE
    /\ UNCHANGED <<pc, ops, chan, pushed, nSteps, events, analytics, result,
                   acts, stepFrame>>
    /\ UNCHANGED <<errAt, toolVars>>

\* the tool names Action::deserialize_gpt turns into an Action
ActionReplies == {"path", "code", "proc", "none", "query"}

ActionOf(r) == IF r = "none" THEN "answer" ELSE r

\* the step returned Ok(n): `break next = n`, on to the drain
StepReturns(n) ==
    /\ next' = n
    /\ pc' = "drain"
    /\ running' = FALSE
    /\ ops' = <<>>
    /\ acts' = SetLast("ret", IF n = "none" THEN "none" ELSE "some")

DoReplyAction ==
    /\ pc = "race" /\ running
    /\ ops # <<>> /\ Head(ops) = "reply"
    /\ Len(acts) < MaxActions
    /\ \E r \in ActionReplies : StepReturns(ActionOf(r))
    /\ UNCHANGED <<action, chan, pushed, nSteps, events, analytics, result,
                   agentAlive, complete, store, stage, timer, elapsed, sinceItem, fwdBy>>
    /\ UNCHANGED <<errAt, toolVars>>

\* an unknown tool name or arguments that are no JSON: serde error, `?`
DoReplyErr ==
    /\ pc = "race" /\ running
    /\ ops # <<>> /\ Head(ops) = "reply"
    /\ LoopExit("processing")
    /\ acts' = SetLast("ret", "err")
    /\ UNCHANGED <<ops, chan, pushed, nSteps, stepFrame>>
    /\ UNCHANGED toolVars

\* no tool name at all: call.name.clone().unwrap() panics
DoReplyPanic ==
    /\ pc = "race" /\ running
    /\ ops # <<>> /\ Head(ops) = "reply"
    /\ Panic
    /\ acts' = SetLast("ret", "panic")
    /\ UNCHANGED <<action, next, ops, chan, pushed, nSteps, complete, store,
                   stage, timer, elapsed, sinceItem, fwdBy>>
    /\ UNCHANGED <<errAt, toolVars>>

\* the Answer arm returns Ok(None)
DoRet ==
    /\ pc = "race" /\ running
    /\ ops # <<>> /\ Head(ops) = "ret"
    /\ StepReturns("none")
    /\ UNCHANGED <<action, chan, pushed, nSteps, events, analytics, result,
                   agentAlive, complete, store, stage, timer, elapsed, sinceItem, fwdBy>>
    /\ UNCHANGED <<errAt, toolVars>>

-----------------------------------------------------------------------------
(* The loop side of the race *)

ForwardUpdateUnlessSending ==
    /\ pc = "race" /\ ~running
    /\ chan # <<>>
    /\ ~(ops # <<>> /\ Head(ops) = "send")
    /\ events' = Append(events, Snapshot(ChanRecv(chan).item))
    /\ fwdBy' = fwdBy \cup {"race"}
    /\ chan' = ChanRecv(chan).rest
    /\ timer' = DeadlineAfterItem(timer)
    /\ sinceItem' = 0
    /\ UNCHANGED <<pc, action, next, ops, running, pushed, nSteps, analytics,
                   agentAlive, complete, result, store, stage, elapsed, acts>>
    /\ UNCHANGED <<errAt, toolVars>>

\* Either::Left: one snapshot leaves the channel and is yielded
ForwardUpdate ==
    /\ pc = "race" /\ ~running
    /\ chan # <<>>
    /\ events' = Append(events, Snapshot(ChanRecv(chan).item))
    /\ fwdBy' = fwdBy \cup {"race"}
    /\ chan' = ChanRecv(chan).rest
    /\ timer' = DeadlineAfterItem(timer)
    /\ sinceItem' = 0
    /\ UNCHANGED <<pc, action, next, ops, running, pushed, nSteps, analytics,
                   agentAlive, complete, result, store, stage, elapsed, acts>>
    /\ UNCHANGED <<errAt, toolVars>>

\* the deadline of the timeout stream has passed
TimeoutDue == timer >= TIMEOUT_SECS

\* time passes while both sides of the race are Pending
Tick ==
    /\ pc = "race" /\ ~running
    /\ chan = <<>>
    /\ ops # <<>> /\ Head(ops) \in Awaits \ {"start"}
    /\ ~TimeoutDue
    /\ timer' = timer + TickSecs
    /\ elapsed' = IF elapsed + TickSecs > MaxElapsed THEN MaxElapsed
                   ELSE elapsed + TickSecs
    /\ sinceItem' = sinceItem + TickSecs
    /\ UNCHANGED <<pc, action, next, ops, running, chan, pushed, nSteps, events,
                   analytics, agentAlive, complete, result, store, stage, acts, fwdBy>>
    /\ UNCHANGED <<errAt, toolVars>>

\* the deadline passed with both sides Pending: Err(Elapsed)
Timeout ==
    /\ pc = "race" /\ ~running
    /\ chan = <<>>
    /\ ops # <<>> /\ Head(ops) \in Awaits \ {"start"}
    /\ TimeoutDue
    /\ LoopExit("timeout")
    /\ acts' = SetLast("ret", "timeout")
    /\ UNCHANGED <<ops, chan, pushed, nSteps, stepFrame>>
    /\ UNCHANGED toolVars

\* the post-step drain yields one buffered snapshot
DrainOne ==
    /\ pc = "drain"
    /\ ~DrainDone(chan)
    /\ events' = Append(events, Snapshot(ChanRecv(chan).item))
    /\ fwdBy' = fwdBy \cup {"drain"}
    /\ chan' = ChanRecv(chan).rest
    /\ UNCHANGED <<pc, action, next, ops, running, pushed, nSteps, analytics,
                   agentAlive, complete, result, store, stage, timer, elapsed,
                   sinceItem, acts>>
    /\ UNCHANGED <<errAt, toolVars>>

\* `Some(a) => action = a`: the next iteration starts
DrainEndNext ==
    /\ pc = "drain"
    /\ DrainDone(chan)
    /\ next # "none"
    /\ pc' = "race"
    /\ action' = next
    /\ next' = "none"
    /\ ops' \in OpsFor(next)
    /\ acts' = Append(acts, NewAct(next))
    /\ timer' = 0 /\ elapsed' = 0 /\ sinceItem' = 0
    /\ UNCHANGED <<running, chan, pushed, nSteps, events, analytics, agentAlive,
                   complete, result, store, stage, fwdBy>>
    /\ UNCHANGED <<errAt, toolVars>>

\* `None => break Ok(())`, and the store call is issued
DrainEndBreak ==
    /\ pc = "drain"
    /\ DrainDone(chan)
    /\ next = "none"
    /\ LoopExit("ok")
    /\ UNCHANGED <<action, next, ops, chan, pushed, nSteps, agentAlive, complete,
                   store, stage, timer, elapsed, sinceItem, acts, fwdBy>>
    /\ UNCHANGED toolVars

-----------------------------------------------------------------------------
(* After the loop *)

\* the write of conversations::store takes effect in the store
StoreCommit ==
    /\ pc = "storing"
    /\ store = <<>>
    /\ store' = <<Len(pushed)>>
    /\ UNCHANGED <<pc, action, next, ops, running, chan, pushed, nSteps, events,
                   analytics, agentAlive, complete, result, stage, timer,
                   elapsed, sinceItem, acts, fwdBy>>
    /\ UNCHANGED <<errAt, toolVars>>

\* store returned Ok: agent.complete(), the generator ends, the agent is
\* dropped, and the chained done_stream yields [DONE]
StoreReturnOk ==
    /\ pc = "storing"
    /\ store # <<>>
    /\ complete' = CompleteAfterStore
    /\ agentAlive' = FALSE
    /\ analytics' = analytics \o DropAgentEvents(complete')
    /\ events' = events \o DoneEvents
    /\ pc' = "closed"
    /\ UNCHANGED <<action, next, ops, running, chan, pushed, nSteps, result,
                   store, stage, timer, elapsed, sinceItem, acts, fwdBy>>
    /\ UNCHANGED <<errAt, toolVars>>

\* store returned Err: `?` yields the error
StoreReturnErr ==
    /\ pc = "storing"
    /\ store = <<>>
    /\ events' = events \o ErrEvents("store")
    /\ pc' = "failed"
    /\ UNCHANGED <<action, next, ops, running, chan, pushed, nSteps, analytics,
                   agentAlive, complete, result, store, stage, timer, elapsed,
                   sinceItem, acts, fwdBy>>
    /\ UNCHANGED <<errAt, toolVars>>

FinishFailedFlushing ==
    /\ pc = "failed"
    /\ agentAlive' = FALSE
    /\ analytics' = analytics \o DropAgentEvents(complete)
    /\ events' = events \o [i \in 1..Len(chan) |-> Snapshot(chan[i])] \o DoneEvents
    /\ chan' = <<>>
    /\ pc' = "closed"
    /\ UNCHANGED <<action, next, ops, running, pushed, nSteps, complete,
                   result, store, stage, timer, elapsed, sinceItem, acts, fwdBy>>
    /\ UNCHANGED <<errAt, toolVars>>

\* the generator resumes behind the yielded error and returns: the agent is
\* dropped, the stream ends, [DONE] follows
FinishFailed ==
    /\ pc = "failed"
    /\ agentAlive' = FALSE
    /\ analytics' = analytics \o DropAgentEvents(complete)
    /\ events' = events \o DoneEvents
    /\ pc' = "closed"
    /\ UNCHANGED <<action, next, ops, running, chan, pushed, nSteps, complete,
                   result, store, stage, timer, elapsed, sinceItem, acts, fwdBy>>
    /\ UNCHANGED <<errAt, toolVars>>

\* catch_unwind ends the stream behind the panic's Err item
FinishPanicked ==
    /\ pc = "panicked"
    /\ events' = events \o DoneEvents
    /\ pc' = "closed"
    /\ UNCHANGED <<action, next, ops, running, chan, pushed, nSteps, analytics,
                   agentAlive, complete, result, store, stage, timer, elapsed,
                   sinceItem, acts, fwdBy>>
    /\ UNCHANGED <<errAt, toolVars>>

\* the client disconnects: the stream is dropped at a suspension point
ClientDrop ==
    /\ \/ pc \in {"open", "inited", "drain", "storing", "failed", "panicked"}
       \/ pc = "race" /\ ~running
    /\ stage' = pc
    /\ pc' = "dropped"
    /\ agentAlive' = FALSE
    /\ analytics' = IF agentAlive THEN analytics \o DropAgentEvents(complete)
                    ELSE analytics
    /\ UNCHANGED <<action, next, ops, running, chan, pushed, nSteps, events,
                   complete, result, store, timer, elapsed, sinceItem, acts, fwdBy>>
    /\ UNCHANGED <<errAt, toolVars>>

-----------------------------------------------------------------------------
Next ==
    \/ HandleError \/ HandleIncompatible \/ HandleProbeFailed \/ HandleOk
    \/ SendInit \/ BeginTurn
    \/ ResumeOk \/ ResumeErr \/ ResumePanic
    \/ DoPush \/ ResumeSend \/ DoTrack \/ DoCheckOk \/ DoCheckErr \/ DoTrim
    \/ DoChat \/ DoSuspend \/ DoReplyAction \/ DoReplyErr \/ DoReplyPanic \/ DoRet
    \/ ForwardUpdate \/ Tick \/ Timeout
    \/ DrainOne \/ DrainEndNext \/ DrainEndBreak
    \/ StoreCommit \/ StoreReturnOk \/ StoreReturnErr
    \/ FinishFailed \/ FinishPanicked \/ ClientDrop

Spec == Init /\ [][Next]_vars

\* the turn without its clock: every step of Next but the passing of time and
\* the timeout, neither of which can fall while a send is suspended
UntimedNext ==
    \/ HandleError \/ HandleIncompatible \/ HandleProbeFailed \/ HandleOk
    \/ SendInit \/ BeginTurn
    \/ ResumeOk \/ ResumeErr \/ ResumePanic
    \/ DoPush \/ ResumeSend \/ DoTrack \/ DoCheckOk \/ DoCheckErr \/ DoTrim
    \/ DoChat \/ DoSuspend \/ DoReplyAction \/ DoReplyErr \/ DoReplyPanic \/ DoRet
    \/ ForwardUpdate
    \/ DrainOne \/ DrainEndNext \/ DrainEndBreak
    \/ StoreCommit \/ StoreReturnOk \/ StoreReturnErr
    \/ FinishFailed \/ FinishPanicked \/ ClientDrop

\* the client keeps polling the response stream, so the loop keeps taking
\* snapshots from the receiver; the runtime wakes a sender once there is room
FairSpec ==
    Init /\ [][UntimedNext]_vars /\ WF_vars(ForwardUpdate) /\ WF_vars(ResumeSend)

-----------------------------------------------------------------------------
(* _handle from conversations::load to exchanges.push: which exchanges of   *)
(* the stored conversation the new turn continues                          *)

TruncInit ==
    /\ LoopInit
    /\ tpc = "request"
    /\ loaded \in StoredConversations
    /\ parent \in ParentIds
    /\ qkind \in QueryKinds
    /\ exchanges = loaded
    /\ StepIdle
    /\ FnIdle

\* the parent the request names is nil, or the id of a loaded exchange
ParentFound == parent = Nil \/ PositionOfId(exchanges, parent) # Absent

\* `exchanges` behind the truncation block
Truncated ==
    IF parent = Absent THEN exchanges
    ELSE IF parent = Nil THEN Truncate(exchanges, 0)
    ELSE Truncate(exchanges, TruncateFrom(PositionOfId(exchanges, parent)))

\* ok_or_else(|| Error::user("parent query id not found in exchanges"))?
RejectParent ==
    /\ tpc = "request"
    /\ parent # Absent /\ ~ParentFound
    /\ tpc' = "user_error"
    /\ UNCHANGED <<exchanges, reqVars, stepVars, loopVars, fnVars>>

\* parse_nl, into_semantic, target, as_plain: a `?` returns before the push
RejectQuery ==
    /\ tpc = "request"
    /\ parent = Absent \/ ParentFound
    /\ qkind # "plain"
    /\ tpc' = "user_error"
    /\ exchanges' = Truncated
    /\ UNCHANGED <<reqVars, stepVars, loopVars, fnVars>>

\* exchanges.push(Exchange::new(query_id, query)): the turn starts with
\* Action::Query(query_target)
Admit ==
    /\ tpc = "request"
    /\ parent = Absent \/ ParentFound
    /\ qkind = "plain"
    /\ tpc' = "step"
    /\ exchanges' = Append(Truncated, Exchange(QueryId, <<>>, <<>>))
    /\ tact' = Act("query", "q", <<>>)
    /\ nActs' = 1
    /\ UNCHANGED <<reqVars, ups, reads, functions, given, terr, loopVars, fnVars>>

TruncNext == RejectParent \/ RejectQuery \/ Admit

TruncSpec == TruncInit /\ [][TruncNext]_vars

-----------------------------------------------------------------------------
(* Agent::step at the level of the conversation: what the tools read, what  *)
(* they push and what they write to the last exchange.  The repository has *)
(* the files 1..NumPaths; the searches return any of them in any order.    *)

SeqsUpTo(S, n) == UNION {[1..k -> S] : k \in 0..n}

\* what a path search returns: a HashSet of paths, collected in any order
PathLists ==
    {ps \in SeqsUpTo(1..NumPaths, MaxResults) :
        \A i, j \in 1..Len(ps) : i # j => ps[i] # ps[j]}

\* path aliases as the language model may write them, valid or not, in
\* increasing order
AliasLists ==
    {as \in SeqsUpTo(0..NumPaths, MaxResults) :
        \A i, j \in 1..Len(as) : i < j => as[i] < as[j]}

\* the text of the chunk the index holds for a file
SnippetOf(p) ==
    IF p % 3 = 1 THEN <<"x">> ELSE IF p % 3 = 2 THEN <<" ">> ELSE <<>>

Queries == {"q"}

\* the actions a function call of the language model deserialises to
NextActions ==
    {Act(k, q, <<>>) : k \in {"query", "path", "code"}, q \in Queries}
        \cup {Act("proc", q, as) : q \in Queries, as \in AliasLists}
        \cup {Act("answer", "", <<>>)}

\* prompts::functions(add_proc): the advertised tools
Functions(addProc) ==
    {"path", "code", "none"} \cup (IF addProc THEN {"proc"} ELSE {})

AddProcAlways(ps) == TRUE

\* !self.paths().is_empty()
AddProc(ps) == ps # <<>>

ValidAlias(ps, i) == i >= 0 /\ i < Len(ps)

ResolveLenient(ps, as) ==
    LET ok == SelectSeq(as, LAMBDA i : ValidAlias(ps, i))
    IN  [ok |-> TRUE, bad |-> Absent, paths |-> [k \in 1..Len(ok) |-> ps[ok[k] + 1]]]

\* path_aliases -> paths, or the first alias that is no index of paths()
Resolve(ps, as) ==
    IF \A k \in 1..Len(as) : ValidAlias(ps, as[k])
    THEN [ok |-> TRUE, bad |-> Absent, paths |-> [k \in 1..Len(as) |-> ps[as[k] + 1]]]
    ELSE [ok |-> FALSE,
          bad |-> as[CHOOSE k \in 1..Len(as) :
                        /\ ~ValidAlias(ps, as[k])
                        /\ \A j \in 1..(k - 1) : ValidAlias(ps, as[j])],
          paths |-> <<>>]

\* the turn starts: Agent::step(Action::Query(query_target))
ToolInit ==
    /\ LoopInit
    /\ tpc = "step"
    /\ loaded = <<>> /\ parent = Absent /\ qkind = "plain"
    /\ exchanges \in {Append(c, Exchange(QueryId, <<>>, <<>>)) : c \in StoredConversations}
    /\ tact \in {Act("query", q, <<>>) : q \in Queries}
    /\ ups = <<>>
    /\ reads = 0
    /\ functions = {}
    /\ given = {}
    /\ terr = NoError
    /\ nActs = 1
    /\ FnIdle

toolFrame == <<reqVars, loopVars, fnVars>>

\* Action::Query: track_query, then on to the planner completion
RunQuery ==
    /\ tpc = "step" /\ tact.kind = "query"
    /\ tpc' = "plan"
    /\ UNCHANGED <<exchanges, tact, ups, reads, functions, given, terr, nActs, toolFrame>>

\* Action::Answer: self.answer(paths), then return Ok(None)
RunAnswer ==
    /\ tpc = "step" /\ tact.kind = "answer"
    /\ tpc' = "answered"
    /\ UNCHANGED <<exchanges, tact, ups, reads, functions, given, terr, nActs, toolFrame>>

\* path_search and code_search start with the StartStep update
StartSearch ==
    /\ tpc = "step" /\ tact.kind \in {"path", "code"}
    /\ ups' = Append(ups, StartStep(tact.kind, tact.query, <<>>))
    /\ tpc' = "searching"
    /\ UNCHANGED <<exchanges, tact, reads, functions, given, terr, nActs, toolFrame>>

\* a search fails: `?`
SearchFails ==
    /\ tpc = "searching"
    /\ reads' = reads + 1
    /\ tpc' = "failed"
    /\ terr' = [msg |-> "search failed", alias |-> Absent]
    /\ UNCHANGED <<exchanges, tact, ups, functions, given, nActs, toolFrame>>

\* the aliases of the found paths, in the order found
Formatted(ps, aliases) == [k \in 1..Len(ps) |-> <<ps[k], aliases[k]>>]

Pairs(f) == {f[k] : k \in 1..Len(f)}

PathSearchAlwaysSemantic(lexical, semantic, replaced) ==
    [searches |-> <<"lexical", "semantic">>,
     ok |-> semantic.ok,
     paths |-> IF semantic.ok THEN semantic.paths ELSE <<>>,
     tracked |-> IF semantic.ok /\ replaced
                 THEN <<[is_semantic |-> lexical = <<>>, results |-> semantic.paths]>>
                 ELSE <<>>]

\* path_search: the searches it issues for a lexical result, the paths it
\* goes on with and the analytics event it tracks; `semantic` is what the
\* semantic search would return, `replaced` whether ReplaceStep was sent
PathSearchRun(lexical, semantic, replaced) ==
    LET is_semantic == lexical = <<>>
        ok == ~is_semantic \/ semantic.ok
        paths == IF ~is_semantic THEN lexical
                 ELSE IF semantic.ok THEN semantic.paths ELSE <<>>
    IN  [searches |-> IF is_semantic THEN <<"lexical", "semantic">> ELSE <<"lexical">>,
         ok |-> ok,
         paths |-> paths,
         tracked |-> IF ok /\ replaced
                     THEN <<[is_semantic |-> is_semantic, results |-> paths]>>
                     ELSE <<>>]

\* path_search behind StartStep: the lexical search, the semantic search if
\* that found nothing, the aliases, ReplaceStep
PathSearch ==
    /\ tpc = "searching" /\ tact.kind = "path"
    /\ \E lexical \in PathLists :
       \E semantic \in (IF lexical = <<>> THEN PathLists ELSE {<<>>}) :
          LET run == PathSearchRun(lexical, [ok |-> TRUE, paths |-> semantic], TRUE)
              paths == run.paths
              r == AliasAll(exchanges, paths)
              formatted == Formatted(paths, r.aliases)
          IN  /\ reads' = reads + Len(run.searches)
              /\ exchanges' = r.exs
              /\ given' = given \cup Pairs(formatted)
              /\ ups' = Append(ups, ReplaceStep("path", tact.query, <<>>, Json(formatted)))
    /\ tpc' = "plan"
    /\ UNCHANGED <<tact, functions, terr, nActs, toolFrame>>

\* code_search behind StartStep: the semantic search and the HyDE search, the
\* chunks with their aliases, the chunks that are not empty kept, ReplaceStep
CodeSearch ==
    /\ tpc = "searching" /\ tact.kind = "code"
    /\ \E results \in SeqsUpTo(1..NumPaths, MaxResults) :
          LET r == AliasAll(exchanges, results)
              chunks == [k \in 1..Len(results) |->
                            CodeChunk(results[k], r.aliases[k], SnippetOf(results[k]))]
          IN  /\ reads' = reads + 2
              /\ exchanges' = PushChunks(r.exs, chunks)
              /\ given' = given \cup Pairs(Formatted(results, r.aliases))
              /\ ups' = Append(ups, ReplaceStep("code", tact.query, <<>>, Json(chunks)))
    /\ tpc' = "plan"
    /\ UNCHANGED <<tact, functions, terr, nActs, toolFrame>>

\* process_files: an alias that is no index of paths() ends the step
ProcInvalidAlias ==
    /\ tpc = "step" /\ tact.kind = "proc"
    /\ LET res == Resolve(AllPaths(exchanges), tact.aliases)
       IN  /\ ~res.ok
           /\ terr' = [msg |-> "invalid path alias", alias |-> res.bad]
    /\ tpc' = "failed"
    /\ UNCHANGED <<exchanges, tact, ups, reads, functions, given, nActs, toolFrame>>

\* process_files: all aliases resolve, StartStep carries the paths
StartProc ==
    /\ tpc = "step" /\ tact.kind = "proc"
    /\ LET res == Resolve(AllPaths(exchanges), tact.aliases)
       IN  /\ res.ok
           /\ ups' = Append(ups, StartStep("proc", tact.query, res.paths))
    /\ tpc' = "reading"
    /\ UNCHANGED <<exchanges, tact, reads, functions, given, terr, nActs, toolFrame>>

\* per file: loaded and explained, not in the index, in the index with no
\* lines, the explanation call failed, the reply is no list of ranges
FileOutcomes == {"ok", "missing", "nolines", "llm", "ranges"}

\* the files whose result is Ok, in the order of the paths
Processed(paths, out) ==
    LET idx == SelectSeq([k \in 1..Len(paths) |-> k], LAMBDA k : out[k] = "ok")
    IN  [k \in 1..Len(idx) |-> paths[idx[k]]]

\* process_files behind StartStep, no file without lines: the failed files are
\* filtered out, the chunks of the others are kept, ReplaceStep
ProcFiles ==
    /\ tpc = "reading"
    /\ \E out \in [1..Len(ups[1].paths) -> FileOutcomes \ {"nolines"}] :
          LET processed == Processed(ups[1].paths, out)
              r == AliasAll(exchanges, processed)
              chunks == [k \in 1..Len(processed) |->
                            CodeChunk(processed[k], r.aliases[k], SnippetOf(processed[k]))]
          IN  /\ reads' = reads + Len(ups[1].paths)
              /\ exchanges' = PushChunks(r.exs, chunks)
              /\ given' = given \cup Pairs(Formatted(processed, r.aliases))
              /\ ups' = Append(ups, ReplaceStep("proc", tact.query, ups[1].paths, Json(chunks)))
    /\ tpc' = "plan"
    /\ UNCHANGED <<tact, functions, terr, nActs, toolFrame>>

\* a loaded file has no lines: lines[0] is out of bounds and panics
ProcPanics ==
    /\ tpc = "reading"
    /\ \E out \in [1..Len(ups[1].paths) -> FileOutcomes] :
          /\ \E k \in 1..Len(ups[1].paths) : out[k] = "nolines"
          /\ reads' = reads + Len(ups[1].paths)
    /\ tpc' = "panicked"
    /\ terr' = [msg |-> "index out of bounds", alias |-> Absent]
    /\ UNCHANGED <<exchanges, tact, ups, functions, given, nActs, toolFrame>>

\* the function schema of the planner completion, and the call
Plan ==
    /\ tpc = "plan"
    /\ functions' = Functions(AddProc(AllPaths(exchanges)))
    /\ tpc' = "chat"
    /\ UNCHANGED <<exchanges, tact, ups, reads, given, terr, nActs, toolFrame>>

\* the completion fails: `?`
ChatFails ==
    /\ tpc = "chat"
    /\ tpc' = "failed"
    /\ terr' = [msg |-> "chat failed", alias |-> Absent]
    /\ UNCHANGED <<exchanges, tact, ups, reads, functions, given, nActs, toolFrame>>

\* Ok(Some(action)): the loop calls step with the next action
Reply ==
    /\ tpc = "chat"
    /\ \E a \in NextActions :
          /\ nActs < MaxToolActions \/ a.kind = "answer"
          /\ tact' = a
    /\ nActs' = nActs + 1
    /\ ups' = <<>>
    /\ reads' = 0
    /\ tpc' = "step"
    /\ UNCHANGED <<exchanges, functions, given, terr, toolFrame>>

\* deserialize_gpt returns Err
ReplyErr ==
    /\ tpc = "chat"
    /\ tpc' = "failed"
    /\ terr' = [msg |-> "deserialize", alias |-> Absent]
    /\ UNCHANGED <<exchanges, tact, ups, reads, functions, given, nActs, toolFrame>>

\* deserialize_gpt panics: the call has no name
ReplyPanic ==
    /\ tpc = "chat"
    /\ tpc' = "panicked"
    /\ terr' = [msg |-> "unwrap on None", alias |-> Absent]
    /\ UNCHANGED <<exchanges, tact, ups, reads, functions, given, nActs, toolFrame>>

ToolNext ==
    \/ RunQuery \/ RunAnswer \/ StartSearch \/ SearchFails \/ PathSearch
    \/ CodeSearch \/ ProcInvalidAlias \/ StartProc \/ ProcFiles \/ ProcPanics
    \/ Plan \/ ChatFails \/ Reply \/ ReplyErr \/ ReplyPanic

ToolSpec == ToolInit /\ [][ToolNext]_vars

\* the request from conversations::load on, and the turn behind it
ConvSpec == TruncInit /\ [][TruncNext \/ ToolNext]_vars

-----------------------------------------------------------------------------
(* The methods of Agent that write to the conversation, called in any      *)
(* order on exchanges that carry every field: update, get_path_alias and   *)
(* the pushes of code chunks                                               *)

Article(text) == [kind |-> "Article", text |-> text]

Conclude(summary) == [kind |-> "Conclude", text |-> summary]

\* an exchange with the fields the updates write
WholeExchange(e, search_steps, article, summary) ==
    [id |-> e.id, query |-> "q", search_steps |-> search_steps,
     paths |-> e.paths, chunks |-> e.chunks,
     article |-> article, summary |-> summary]

SearchStep(u) ==
    [variant |-> u.variant, query |-> u.query, paths |-> u.paths,
     response |-> u.response]

\* Exchange::apply_update
ApplyUpdate(e, u) ==
    CASE u.kind = "StartStep" -> [e EXCEPT !.search_steps = Append(@, SearchStep(u))]
      [] u.kind = "ReplaceStep" ->
            [e EXCEPT !.search_steps =
                IF @ = <<>> THEN <<SearchStep(u)>>
                ELSE [@ EXCEPT ![Len(@)] = SearchStep(u)]]
      [] u.kind = "Article" -> [e EXCEPT !.article = Some(u.text)]
      [] u.kind = "Conclude" -> [e EXCEPT !.summary = Some(u.text)]

AgentUpdateFirst(exs, u) == [exs EXCEPT ![1] = ApplyUpdate(@, u)]

\* Agent::update: self.last_exchange_mut().apply_update(update)
AgentUpdate(exs, u) == [exs EXCEPT ![Len(exs)] = ApplyUpdate(@, u)]

\* a completed exchange of an earlier turn, as the store holds it
StoredWhole(e) ==
    WholeExchange(e,
                  IF e.chunks = <<>> THEN <<>>
                  ELSE <<SearchStep(ReplaceStep("code", "q", <<>>, Json(e.chunks)))>>,
                  Some("a"), Some("s"))

\* Exchange::new(query_id, query)
NewWhole == WholeExchange(Exchange(QueryId, <<>>, <<>>), <<>>, None, None)

\* the updates the tools and the answer send
Updates ==
    {StartStep(v, "q", <<>>) : v \in {"path", "code"}}
        \cup {ReplaceStep(v, "q", <<>>, Json(<<>>)) : v \in {"path", "code"}}
        \cup {Article(t) : t \in {"a", "ab"}}
        \cup {Conclude("s")}

AgentInit ==
    /\ LoopInit
    /\ tpc = "agent"
    /\ loaded = <<>> /\ parent = Absent /\ qkind = "plain"
    /\ exchanges \in {Append([i \in 1..Len(c) |-> StoredWhole(c[i])], NewWhole) :
                         c \in StoredConversations}
    /\ StepIdle
    /\ FnIdle

agentFrame == <<tpc, reqVars, stepVars, loopVars, fnVars>>

\* self.update(update): the turn has at most MaxToolActions - 1 search steps
CallUpdate ==
    /\ tpc = "agent"
    /\ \E u \in Updates :
          /\ u.kind = "StartStep" =>
                Len(exchanges[Len(exchanges)].search_steps) < MaxToolActions - 1
          /\ exchanges' = AgentUpdate(exchanges, u)
    /\ UNCHANGED agentFrame

\* self.get_path_alias(path)
CallGetPathAlias ==
    /\ tpc = "agent"
    /\ \E p \in 1..NumPaths : exchanges' = GetPathAlias(exchanges, p).exs
    /\ UNCHANGED agentFrame

\* a chunk of a search result or of a processed file: its alias from
\* get_path_alias, pushed unless it is empty
CallPushChunk ==
    /\ tpc = "agent"
    /\ Len(exchanges[Len(exchanges)].chunks) < MaxResults
    /\ \E p \in 1..NumPaths :
          LET r == GetPathAlias(exchanges, p)
          IN  exchanges' = PushChunks(r.exs, <<CodeChunk(p, r.alias, SnippetOf(p))>>)
    /\ UNCHANGED agentFrame

AgentNext == CallUpdate \/ CallGetPathAlias \/ CallPushChunk

AgentSpec == AgentInit /\ [][AgentNext]_vars

-----------------------------------------------------------------------------
(* Functions of the file applied on their own, to every argument within    *)
(* the bounds                                                              *)

\* insertion of x into a sorted sequence
RECURSIVE Insert(_, _)
Insert(x, t) ==
    IF t = <<>> THEN <<x>>
    ELSE IF x <= Head(t) THEN <<x>> \o t
    ELSE <<Head(t)>> \o Insert(x, Tail(t))

\* slice::sort
RECURSIVE Sort(_)
Sort(t) == IF t = <<>> THEN <<>> ELSE Insert(Head(t), Sort(Tail(t)))

DedupSkipped(t) == t

\* Vec::dedup: consecutive repeated elements are removed
RECURSIVE Dedup(_)
Dedup(t) ==
    IF Len(t) <= 1 THEN t
    ELSE IF t[1] = t[2] THEN Dedup(Tail(t))
    ELSE <<t[1]>> \o Dedup(Tail(t))

\* answer_context: the aliases the context is built from
AnswerAliases(paths, aliases) ==
    LET valid == Dedup(Sort(SelectSeq(aliases, LAMBDA a : a < Len(paths))))
    IN  IF Len(valid) = 1 THEN valid
        ELSE [k \in 1..Len(paths) |-> k - 1]

AnswerAliasesInputs ==
    {[paths |-> [k \in 1..n |-> k], aliases |-> as] :
        n \in 0..(NumPaths + 1),
        as \in SeqsUpTo(0..(NumPaths + 1), MaxResults + 1)}

\* messages of a history: the token count is that of the content, a hidden
\* message costs TokUnit, an empty one nothing
TrimMessages ==
    {Msg("system", "prompt", 2 * TokUnit),
     Msg("function_call", "call", TokUnit),
     Msg("user", "", 0),
     Msg("user", "short", TokUnit),
     Msg("user", "long", 3 * TokUnit),
     Msg("user", HIDDEN, TokUnit),
     Msg("assistant", "long", 3 * TokUnit),
     Msg("function", "long", 3 * TokUnit)}

TrimHistoryInputs == SeqsUpTo(TrimMessages, MaxMsgs)

\* bpe.encode_ordinary(line).len() of each line
RECURSIVE SumSeq(_)
SumSeq(t) == IF t = <<>> THEN 0 ELSE Head(t) + SumSeq(Tail(t))

\* the while loop of trim_lines_by_tokens from index i with `tokens` counted
RECURSIVE TrimLoop(_, _, _, _)
TrimLoop(line_tokens, max_tokens, i, tokens) ==
    IF i < Len(line_tokens) /\ tokens < max_tokens
    THEN <<line_tokens[i + 1]>>
            \o TrimLoop(line_tokens, max_tokens, i + 1, tokens + line_tokens[i + 1])
    ELSE <<>>

TrimLinesBelowMax(line_tokens, max_tokens) ==
    LET fit == {n \in 0..Len(line_tokens) :
                    SumSeq(SubSeq(line_tokens, 1, n)) < max_tokens}
    IN  IF fit = {} THEN <<>>
        ELSE SubSeq(line_tokens, 1, CHOOSE n \in fit : \A m \in fit : m <= n)

\* trim_lines_by_tokens, a line standing for its token count
TrimLinesByTokens(line_tokens, max_tokens) == TrimLoop(line_tokens, max_tokens, 0, 0)

TrimLinesInputs ==
    {[lines |-> l, max_tokens |-> m] :
        l \in SeqsUpTo(0..MaxLineTokens, MaxLines),
        m \in 0..(MaxLines * MaxLineTokens)}

\* usize::saturating_sub
SatSub(a, b) == IF a > b THEN a - b ELSE 0

Min2(a, b) == IF a <= b THEN a ELSE b

Max2(a, b) == IF a >= b THEN a ELSE b

\* a line range start..end
Span(s, e) == [start |-> s, end |-> e]

MergeOverlappingAlways(a, b) ==
    IF a.end >= b.start
    THEN [a |-> [a EXCEPT !.end = b.end], ret |-> None]
    ELSE [a |-> a, ret |-> Some(b)]

\* merge_overlapping(&mut a, b): a after the call and the returned option
MergeOverlapping(a, b) ==
    IF a.end >= b.start
    THEN [a |-> IF a.end < b.end THEN [a EXCEPT !.end = b.end] ELSE a,
          ret |-> None]
    ELSE [a |-> a, ret |-> Some(b)]

\* the fold of canonicalize_code_chunks over the spans of one file
RECURSIVE MergeFold(_, _)
MergeFold(acc, rest) ==
    IF rest = <<>> THEN acc
    ELSE IF acc = <<>> THEN MergeFold(<<Head(rest)>>, Tail(rest))
    ELSE LET m == MergeOverlapping(acc[Len(acc)], Head(rest))
             acc1 == [acc EXCEPT ![Len(acc)] = m.a]
         IN  MergeFold(IF m.ret = None THEN acc1 ELSE Append(acc1, m.ret[1]),
                       Tail(rest))

RECURSIVE InsertByStart(_, _)
InsertByStart(x, t) ==
    IF t = <<>> THEN <<x>>
    ELSE IF x.start <= Head(t).start THEN <<x>> \o t
    ELSE <<Head(t)>> \o InsertByStart(x, Tail(t))

\* spans.sort_by_key(|c| c.start): a stable sort
RECURSIVE SortByStart(_)
SortByStart(t) ==
    IF t = <<>> THEN <<>> ELSE InsertByStart(Head(t), SortByStart(Tail(t)))

TOTAL_LINE_INC == 100

\* context_size * CONTEXT_CODE_RATIO
MaxCodeTokens == ContextSize \div 2

\* the number of lines of an indexed file
FileLines(p) == 30 * p * p

\* tokens of the lines span.start - 1 .. span.end - 1 of a file
SpanTokens(sp) == LineTokens * (SatSub(sp.end, 1) - SatSub(sp.start, 1))

RECURSIVE SumSpanTokens(_)
SumSpanTokens(t) ==
    IF t = <<>> THEN 0 ELSE SpanTokens(Head(t)) + SumSpanTokens(Tail(t))

RECURSIVE SumOver(_, _, _)
SumOver(f(_), by, keys) ==
    IF keys = {} THEN 0
    ELSE LET k == CHOOSE k \in keys : TRUE
         IN  f(by[k]) + SumOver(f, by, keys \ {k})

GrowSpanNoCap(sp, range_step, file_lines) ==
    Span(Max2(SatSub(sp.start, range_step), 1), sp.end + range_step)

GrowSpan(sp, range_step, file_lines) ==
    Span(Max2(SatSub(sp.start, range_step), 1),
         Min2(sp.end + range_step, file_lines))

ChangedAlways(by, grown, merged) == TRUE

\* `changed` at the end of an iteration: a span grew or was clamped, or
\* merge_overlapping returned None for a pair
Changed(by, grown, merged) ==
    grown # by \/ \E p \in DOMAIN by : Len(merged[p]) < Len(grown[p])

\* one iteration of the while loop of canonicalize_code_chunks
ExpandIter(by) ==
    LET keys == DOMAIN by
        tokens == SumOver(SumSpanTokens, by, keys)
        range_step == Max2((TOTAL_LINE_INC \div 2) \div Max2(SumOver(Len, by, keys), 1), 1)
        grown == IF tokens < MaxCodeTokens
                 THEN [p \in keys |->
                          [i \in 1..Len(by[p]) |->
                              GrowSpan(by[p][i], range_step, FileLines(p))]]
                 ELSE by
        merged == [p \in keys |-> MergeFold(<<>>, grown[p])]
    IN  [by |-> merged, changed |-> Changed(by, grown, merged)]

\* spans_by_path: the spans of the selected chunks of each path, sorted
SpansByPath(chunks, aliases) ==
    LET sel == SelectSeq(chunks, LAMBDA c : \E k \in 1..Len(aliases) : aliases[k] = c.alias)
        keys == {sel[k].path : k \in 1..Len(sel)}
        of(c) == Span(c.start_line, c.end_line)
    IN  [p \in keys |->
            LET mine == SelectSeq(sel, LAMBDA c : c.path = p)
            IN  SortByStart([i \in 1..Len(mine) |-> of(mine[i])])]

\* a chunk of a file with the text of its lines
ChunkAt(path, alias, start_line, end_line) ==
    [path |-> path, alias |-> alias,
     snippet |-> <<path, SatSub(start_line, 1), SatSub(end_line, 1)>>,
     start_line |-> start_line, end_line |-> end_line]

\* the final map over (path, span) pairs, get_path_alias called for each
RECURSIVE EmitChunks(_, _, _, _)
EmitChunks(exs, by, order, out) ==
    IF order = <<>> THEN [chunks |-> out, exs |-> exs]
    ELSE LET p == Head(order)
         IN  IF by[p] = <<>>
             THEN EmitChunks(exs, by, Tail(order), out)
             ELSE LET a == GetPathAlias(exs, p)
                      c == ChunkAt(p, a.alias, by[p][1].start, by[p][1].end)
                  IN  EmitChunks(a.exs, [by EXCEPT ![p] = Tail(@)], order,
                                 Append(out, c))

\* the orders a HashMap with these keys may be iterated in
Orders(keys) ==
    {o \in [1..Cardinality(keys) -> keys] :
        \A i, j \in 1..Cardinality(keys) : i # j => o[i] # o[j]}

\* the chunks a search or proc step may have stored for a file
StoredChunks ==
    UNION {{ChunkAt(p, p - 1, 1, 6), ChunkAt(p, p - 1, 8, 12),
            ChunkAt(p, p - 1, 20, FileLines(p) + 1)} : p \in 1..NumPaths}

CanonInputs ==
    {[exs |-> <<[paths |-> [k \in 1..NumPaths |-> k], chunks |-> cs]>>,
      aliases |-> as] :
        cs \in SeqsUpTo(StoredChunks, MaxResults), as \in AliasLists}

\* well-formed line ranges, the first starting no later than the second
MergeInputs ==
    {[a |-> Span(s1, e1), b |-> Span(s2, e2)] :
        s1 \in 1..(MaxLines + 1), e1 \in 1..(MaxLines + 1),
        s2 \in 1..(MaxLines + 1), e2 \in 1..(MaxLines + 1)}
    \cap {x \in [a : [start : Nat, end : Nat], b : [start : Nat, end : Nat]] :
              x.a.start <= x.a.end /\ x.b.start <= x.b.end /\ x.a.start <= x.b.start}

MAX_CHUNK_LINE_LENGTH == 20

CHUNK_MERGE_DISTANCE == 10

\* the derived Ord of Range: by start, then by end
RangeLeq(x, y) == x.start < y.start \/ (x.start = y.start /\ x.end <= y.end)

RECURSIVE InsertRange(_, _)
InsertRange(x, t) ==
    IF t = <<>> THEN <<x>>
    ELSE IF RangeLeq(x, Head(t)) THEN <<x>> \o t
    ELSE <<Head(t)>> \o InsertRange(x, Tail(t))

\* line_ranges.sort()
RECURSIVE SortRanges(_)
SortRanges(t) ==
    IF t = <<>> THEN <<>> ELSE InsertRange(Head(t), SortRanges(Tail(t)))

\* the ranges of the reply with a positive start and end, each capped
CapRanges(rs) ==
    LET kept == SelectSeq(rs, LAMBDA r : r.start > 0 /\ r.end > 0)
    IN  [i \in 1..Len(kept) |->
            Span(kept[i].start, Min2(kept[i].end, kept[i].start + MAX_CHUNK_LINE_LENGTH))]

\* line_ranges after the cap, sort and dedup
LineRanges(rs) == Dedup(SortRanges(CapRanges(rs)))

\* the fold of process_files that joins a range to the one before it
RECURSIVE JoinRanges(_, _)
JoinRanges(exps, rest) ==
    IF rest = <<>> THEN exps
    ELSE IF exps # <<>> /\ exps[Len(exps)].end + CHUNK_MERGE_DISTANCE >= Head(rest).start
         THEN JoinRanges([exps EXCEPT ![Len(exps)].end = Head(rest).end], Tail(rest))
         ELSE JoinRanges(Append(exps, Head(rest)), Tail(rest))

\* the ranges process_files cuts the file by, from the ranges of the reply
RelevantRanges(rs) == JoinRanges(<<>>, LineRanges(rs))

\* line ranges as the language model may reply them
ReplyRanges ==
    {Span(10, 12), Span(18, 20), Span(40, 42), Span(10, 30), Span(12, 14),
     Span(0, 5), Span(10, 45), Span(23, 24)}

ProcRangeInputs == SeqsUpTo(ReplyRanges, MaxRanges)

\* results of the two searches of a path step, and whether the client is
\* still there when ReplaceStep is sent
PathSearchInputs ==
    {[lexical |-> l, semantic |-> sem, replaced |-> rep] :
        l \in PathLists,
        sem \in {[ok |-> TRUE, paths |-> ps] : ps \in PathLists}
                    \cup {[ok |-> FALSE, paths |-> <<>>]},
        rep \in BOOLEAN}

\* answer_context: the selection of the most recent chunks that fit the prompt
PROMPT_HEADROOM == 2500

\* A usize is written as the integer of least magnitude congruent to it
\* modulo 2^64: -k stands for 2^64 - k. The order of two usize values:
ULess(a, b) == IF (a < 0) = (b < 0) THEN a < b ELSE b < 0

\* the state the loop over code_chunks.iter().rev() is left in
RecentResult(recent, remaining, wrapped, panicked) ==
    [recent |-> recent, remaining |-> remaining,
     wrapped |-> wrapped, panicked |-> panicked]

\* remaining_prompt_tokens -= snippet_tokens
RemainingAfter(remaining, snippet_tokens) == remaining - snippet_tokens

\* the loop at chunk i of snippet_tokens, the chunks taken from the last to the
\* first; a subtraction below zero panics in a build with overflow checks
\* and wraps in a build without
RECURSIVE RecentLoop(_, _, _, _, _, _)
RecentLoop(snippet_tokens, i, remaining, recent, wrapped, overflow_checks) ==
    IF i = 0 THEN RecentResult(recent, remaining, wrapped, FALSE)
    ELSE LET under == ULess(remaining, PROMPT_HEADROOM)
             limit == remaining - PROMPT_HEADROOM
             under2 == ULess(remaining, snippet_tokens[i])
         IN  IF under /\ overflow_checks
             THEN RecentResult(recent, remaining, wrapped, TRUE)
             ELSE IF ~ULess(snippet_tokens[i], limit)
             THEN RecentResult(recent, remaining, wrapped \/ under, FALSE)
             ELSE IF under2 /\ overflow_checks
             THEN RecentResult(Append(recent, i), remaining, wrapped \/ under, TRUE)
             ELSE RecentLoop(snippet_tokens, i - 1,
                             RemainingAfter(remaining, snippet_tokens[i]),
                             Append(recent, i), wrapped \/ under \/ under2,
                             overflow_checks)

\* get_completion_max_tokens(gpt_model, &s), then the loop
RecentChunks(prompt_tokens, snippet_tokens, overflow_checks) ==
    RecentLoop(snippet_tokens, Len(snippet_tokens),
               SatSub(ContextSize, prompt_tokens), <<>>, FALSE, overflow_checks)

\* the tokens of the path list `s`, the tokens of the formatted snippets of
\* the canonicalized chunks, and whether the build checks overflow
RecentChunksInputs ==
    {[prompt_tokens |-> k * TokUnit, snippet_tokens |-> t, overflow_checks |-> b] :
        k \in 0..6,
        t \in SeqsUpTo({TokUnit, 2 * TokUnit, 4 * TokUnit}, MaxResults),
        b \in BOOLEAN}

FnInit ==
    /\ LoopInit /\ ToolIdle
    /\ fout = <<>>
    /\ pipe = <<>>
    /\ \/ fname = "answer_context" /\ fin \in AnswerAliasesInputs
       \/ fname = "trim_history" /\ fin \in TrimHistoryInputs
       \/ fname = "trim_lines_by_tokens" /\ fin \in TrimLinesInputs
       \/ fname = "canonicalize_code_chunks" /\ fin \in CanonInputs
       \/ fname = "merge_overlapping" /\ fin \in MergeInputs
       \/ fname = "process_files" /\ fin \in ProcRangeInputs
       \/ fname = "path_search" /\ fin \in PathSearchInputs
       \/ fname = "recent_chunks" /\ fin \in RecentChunksInputs

fnFrame == <<fname, fin, pipe, loopVars, tpc, reqVars, exchanges, stepVars>>

ApplyAnswerAliases ==
    /\ fname = "answer_context" /\ fout = <<>>
    /\ fout' = <<AnswerAliases(fin.paths, fin.aliases)>>
    /\ UNCHANGED fnFrame

ApplyTrimHistory ==
    /\ fname = "trim_history" /\ fout = <<>>
    /\ fout' = <<TrimHistory(fin)>>
    /\ UNCHANGED fnFrame

ApplyTrimLines ==
    /\ fname = "trim_lines_by_tokens" /\ fout = <<>>
    /\ fout' = <<TrimLinesByTokens(fin.lines, fin.max_tokens)>>
    /\ UNCHANGED fnFrame

\* canonicalize_code_chunks is called on the conversation as the calls before
\* left it: spans_by_path is built and sorted, `changed` starts true
CanonStart ==
    /\ fname = "canonicalize_code_chunks" /\ Len(fout) < 2
    /\ pipe = <<>>
    /\ LET exs == IF fout = <<>> THEN fin.exs ELSE fout[Len(fout)].exs
       IN  pipe' = <<[by |-> SpansByPath(AllChunks(exs), fin.aliases),
                      changed |-> TRUE, iterations |-> 0, exs |-> exs]>>
    /\ UNCHANGED <<fname, fin, fout, loopVars, tpc, reqVars, exchanges, stepVars>>

\* while !spans_by_path.is_empty() && changed
CanonIterate ==
    /\ fname = "canonicalize_code_chunks" /\ pipe # <<>>
    /\ DOMAIN pipe[1].by # {} /\ pipe[1].changed
    /\ LET r == ExpandIter(pipe[1].by)
       IN  pipe' = <<[by |-> r.by, changed |-> r.changed,
                      iterations |-> pipe[1].iterations + 1, exs |-> pipe[1].exs]>>
    /\ UNCHANGED <<fname, fin, fout, loopVars, tpc, reqVars, exchanges, stepVars>>

\* the loop has ended: the chunks of the spans, the map iterated in any order
CanonEmit ==
    /\ fname = "canonicalize_code_chunks" /\ pipe # <<>>
    /\ DOMAIN pipe[1].by = {} \/ ~pipe[1].changed
    /\ \E order \in Orders(DOMAIN pipe[1].by) :
           fout' = Append(fout, EmitChunks(pipe[1].exs, pipe[1].by, order, <<>>))
    /\ pipe' = <<>>
    /\ UNCHANGED <<fname, fin, loopVars, tpc, reqVars, exchanges, stepVars>>

ApplyMergeOverlapping ==
    /\ fname = "merge_overlapping" /\ fout = <<>>
    /\ fout' = <<MergeOverlapping(fin.a, fin.b)>>
    /\ UNCHANGED fnFrame

ApplyRelevantRanges ==
    /\ fname = "process_files" /\ fout = <<>>
    /\ fout' = <<RelevantRanges(fin)>>
    /\ UNCHANGED fnFrame

ApplyPathSearch ==
    /\ fname = "path_search" /\ fout = <<>>
    /\ fout' = <<PathSearchRun(fin.lexical, fin.semantic, fin.replaced)>>
    /\ UNCHANGED fnFrame

ApplyRecentChunks ==
    /\ fname = "recent_chunks" /\ fout = <<>>
    /\ fout' = <<RecentChunks(fin.prompt_tokens, fin.snippet_tokens, fin.overflow_checks)>>
    /\ UNCHANGED fnFrame

FnNext ==
    \/ ApplyAnswerAliases
    \/ ApplyTrimHistory
    \/ ApplyTrimLines
    \/ CanonStart \/ CanonIterate \/ CanonEmit
    \/ ApplyMergeOverlapping
    \/ ApplyRelevantRanges
    \/ ApplyPathSearch
    \/ ApplyRecentChunks

FnSpec == FnInit /\ [][FnNext]_vars

-----------------------------------------------------------------------------
(* process_files: the file loads and the per-file calls of the language    *)
(* model, run as two buffered stages one behind the other                  *)

\* .buffered(10) of the file loads
LoadBuffer == 10

LlmBufferWide == LoadBuffer

\* .buffered(5) of the per-file calls
LlmBuffer == 5

\* what becomes of a file: it is not in the index, the call or the parse of
\* its reply fails, it has no lines, or its relevant chunks are found
OutcomeOf(p) ==
    IF p = MaxProcFiles THEN "empty"
    ELSE IF p % 7 = 2 THEN "missing"
    ELSE IF p % 7 = 5 THEN "llm_err"
    ELSE "ok"

\* a future of a buffered stage: "run" until it completed with "ok" or "err"
Fut(path, st) == [path |-> path, st |-> st]

\* the paths of a proc action: files n, n - 1, .., 1, listed in this order,
\* for few files and for more files than the two stages hold together
ProcPaths ==
    {[k \in 1..n |-> n + 1 - k] :
        n \in (0..3) \cup ((MaxProcFiles - 1)..MaxProcFiles)}

ProcInit ==
    /\ LoopInit /\ ToolIdle
    /\ fname = "process_files"
    /\ fin \in ProcPaths
    /\ fout = <<>>
    /\ pipe = [next |-> 1, loads |-> <<>>, calls |-> <<>>, out |-> <<>>]

procFrame == <<fname, fin, loopVars, tpc, reqVars, exchanges, stepVars>>

PipeRuns == fname = "process_files" /\ fout = <<>>

\* the first stage takes the next path while it holds fewer than LoadBuffer
\* futures, completed ones that were not taken from it included
StartLoad ==
    /\ PipeRuns
    /\ pipe.next <= Len(fin)
    /\ Len(pipe.loads) < LoadBuffer
    /\ pipe' = [pipe EXCEPT !.next = @ + 1,
                            !.loads = Append(@, Fut(fin[pipe.next], "run"))]
    /\ UNCHANGED <<fout, procFrame>>

\* get_file_content and trim_lines_by_tokens of one file complete
FinishLoad ==
    /\ PipeRuns
    /\ \E i \in 1..Len(pipe.loads) :
           /\ pipe.loads[i].st = "run"
           /\ pipe' = [pipe EXCEPT !.loads[i].st =
                           IF OutcomeOf(pipe.loads[i].path) = "missing"
                           THEN "err" ELSE "ok"]
    /\ UNCHANGED <<fout, procFrame>>

\* the second stage takes the oldest load, once it completed, while it holds
\* fewer than LlmBuffer futures; `result?` ends the future of a failed load
\* before any call
StartCall ==
    /\ PipeRuns
    /\ pipe.loads # <<>> /\ Head(pipe.loads).st # "run"
    /\ Len(pipe.calls) < LlmBuffer
    /\ OutcomeOf(Head(pipe.loads).path) # "empty"
    /\ pipe' = [pipe EXCEPT
                   !.loads = Tail(@),
                   !.calls = Append(@, Fut(Head(pipe.loads).path,
                                IF Head(pipe.loads).st = "err" THEN "err" ELSE "run"))]
    /\ UNCHANGED <<fout, procFrame>>

\* lines[0] of a file without lines
CallPanics ==
    /\ PipeRuns
    /\ pipe.loads # <<>> /\ Head(pipe.loads).st # "run"
    /\ Len(pipe.calls) < LlmBuffer
    /\ OutcomeOf(Head(pipe.loads).path) = "empty"
    /\ fout' = <<[panicked |-> TRUE, entries |-> <<>>]>>
    /\ UNCHANGED <<pipe, procFrame>>

\* the call of the language model for one file and the parse of its reply
FinishCall ==
    /\ PipeRuns
    /\ \E i \in 1..Len(pipe.calls) :
           /\ pipe.calls[i].st = "run"
           /\ pipe' = [pipe EXCEPT !.calls[i].st =
                           IF OutcomeOf(pipe.calls[i].path) = "llm_err"
                           THEN "err" ELSE "ok"]
    /\ UNCHANGED <<fout, procFrame>>

\* filter_map(|res| res.ok()) and collect take the oldest call once it completed
Collect ==
    /\ PipeRuns
    /\ pipe.calls # <<>> /\ Head(pipe.calls).st # "run"
    /\ pipe' = [pipe EXCEPT
                   !.calls = Tail(@),
                   !.out = IF Head(pipe.calls).st = "ok"
                           THEN Append(@, Head(pipe.calls).path) ELSE @]
    /\ UNCHANGED <<fout, procFrame>>

\* both stages are exhausted: the response lists `processed` in its order
Respond ==
    /\ PipeRuns
    /\ pipe.next > Len(fin) /\ pipe.loads = <<>> /\ pipe.calls = <<>>
    /\ fout' = <<[panicked |-> FALSE,
                  entries |-> [k \in 1..Len(pipe.out) |->
                      [path |-> pipe.out[k],
                       path_alias |-> PositionOf(fin, pipe.out[k])]]]>>
    /\ UNCHANGED <<pipe, procFrame>>

ProcNext ==
    \/ StartLoad \/ FinishLoad \/ StartCall \/ CallPanics \/ FinishCall
    \/ Collect \/ Respond

ProcSpec == ProcInit /\ [][ProcNext]_vars

-----------------------------------------------------------------------------
(* Properties *)

Cancelled == Len(SelectSeq(analytics, LAMBDA e : e = "cancelled"))

ErrPositions == {i \in 1..Len(events) : events[i].t = "err"}

\* the request passed the compatibility probe and the parameter checks
Admitted == pc \notin {"request", "http_error", "rejected"}

\* the agent was built and has been dropped
Released == acts # <<>> /\ ~agentAlive

\* C1: within a turn the forwarded snapshots appear in the order in which their
\* updates were pushed: every forwarded snapshot was sent, a later event never
\* carries an earlier update, and what is buffered is newer than what was
\* forwarded and in push order itself
C1_ForwardedInPushOrder ==
    /\ \A i \in 1..Len(Forwarded) : Forwarded[i].id \in 1..Sent
    /\ \A i, j \in 1..Len(Forwarded) : i < j => Forwarded[i].id < Forwarded[j].id
    /\ \A i, j \in 1..Len(chan) : i < j => chan[i] < chan[j]
    /\ \A i \in 1..Len(Forwarded) : \A j \in 1..Len(chan) : Forwarded[i].id < chan[j]

C1_Witness ==
    /\ pc = "drain"
    /\ Len(acts) >= 2
    /\ Len(chan) >= 2
    /\ fwdBy = {"race", "drain"}

C3_IterationTimeout ==
    (pc = "race" /\ elapsed >= TIMEOUT_SECS) => TimeoutDue

\* C3 as amended: the abort is due exactly when 60 seconds have passed since the
\* iteration began or last yielded an item, and a Timeout result only follows
\* such a gap
C3_ItemTimeout ==
    /\ pc = "race" => (TimeoutDue <=> sinceItem >= TIMEOUT_SECS)
    /\ result = "timeout" => sinceItem >= TIMEOUT_SECS

C3_Witness ==
    /\ result = "timeout"
    /\ Len(Forwarded) >= 1
    /\ elapsed > TIMEOUT_SECS

\* C4: at most one cancelled event per turn; none while the agent lives; and
\* once the agent is released there is one if and only if complete was not set
C4_CancelledIffIncomplete ==
    /\ Cancelled <= 1
    /\ agentAlive => Cancelled = 0
    /\ Released => (Cancelled = 1 <=> ~complete)

C4_Witness ==
    /\ pc = "closed"
    /\ result = "ok"
    /\ ~complete
    /\ Cancelled = 1

C6_StoredThenComplete ==
    /\ [](/\ Len(store) <= 1
          /\ store # <<>> => /\ result = "ok"
                             /\ store[1] = Len(pushed)
                             /\ LastAct.kind = "answer" /\ LastAct.ret = "none"
          /\ complete => store # <<>>)
    /\ [][complete => complete']_vars

C6_Witness ==
    /\ complete
    /\ Len(pushed) >= 3
    /\ store = <<Len(pushed)>>

\* C7: for an admitted request the stream starts with the init event, carries
\* only snapshots and Err events behind it, and [DONE] occurs only as the last
\* event, there when the stream has ended (also after timeout, error or panic)
C7_StreamShape ==
    Admitted =>
        /\ events # <<>> => events[1] = InitEvent
        /\ \A i \in 2..Len(events) : events[i].t \in {"snap", "err", "done"}
        /\ \A i \in 1..Len(events) : events[i].t = "done" => i = Len(events)
        /\ pc = "closed" <=> (events # <<>> /\ events[Len(events)].t = "done")

C7_Witness ==
    /\ pc = "closed"
    /\ result = "panic"
    /\ Len(Forwarded) >= 1
    /\ events[Len(events)] = DoneEvent

\* C8: a stream carries at most one Err event, and only [DONE] follows it
C8_SingleErr ==
    /\ Cardinality(ErrPositions) <= 1
    /\ \A i \in ErrPositions : \A j \in (i + 1)..Len(events) : events[j].t = "done"

C8_Witness ==
    /\ pc = "closed"
    /\ result \in {"processing", "timeout"}
    /\ chan # <<>>
    /\ Cardinality(ErrPositions) = 1


\* the number of search steps after which the planner history no longer fits
ToolStepBound == (ContextSize - HEADROOM - 2 * TokUnit) \div (2 * TokUnit)

\* C9 as claimed: a turn executes a bounded number of actions: the seed, the
\* tool actions whose steps the planner history can hold, and one more
C9_BoundedActions ==
    Len(acts) <= ToolStepBound + 2

\* C10: Answer is terminal: an Answer action is the last action of its turn,
\* issues no planner completion and yields no follow-up; and the loop exits
\* with Ok only when its last action is an Answer that returned
C10_AnswerTerminal ==
    /\ \A i \in 1..Len(acts) :
          acts[i].kind = "answer" =>
              /\ i = Len(acts)
              /\ ~acts[i].planned
              /\ acts[i].ret # "some"
    /\ result = "ok" => (LastAct.kind = "answer" /\ LastAct.ret = "none")

C10_Witness ==
    /\ result = "ok"
    /\ Len(acts) >= 3
    /\ LastAct.kind = "answer"
    /\ \E i \in 1..Len(acts) : acts[i].planned

\* the analytics events of the `error` output stage
ErrorTracked ==
    SelectSeq(analytics,
              LAMBDA e : e \in {"error_status", "error_timeout", "error_message"})

\* C11 as claimed: Query is executed exactly once per turn, as the seed action:
\* no follow-up action of a turn is a Query, whatever the language model replies
C11_QueryOnlySeed ==
    \A i \in 1..Len(acts) : acts[i].kind = "query" <=> i = 1

\* C18 as claimed: a turn that ended because the folded function call could not
\* be turned into an Action (the step stopped at deserialize_gpt) ended with a
\* Processing error, never a panic, and with an `error` analytics event
\* carrying the message
C18_MalformedCallIsProcessingError ==
    (pc \in {"failed", "panicked", "closed"} /\ ops # <<>> /\ Head(ops) = "reply")
        => /\ result = "processing"
           /\ ErrorTracked = <<"error_message">>

\* C19: a stream whose Err event comes from the result match (timeout or
\* Processing error) has exactly one `error` analytics event, of the matching
\* payload (timeout duration, respectively message), and it was sent when the
\* Err event was not yet on the stream
C19_ErrorTrackedBeforeErr ==
    \A i \in ErrPositions :
        events[i].msg \in {"timeout", "processing"} =>
            /\ ErrorTracked = <<ErrorEventOf(events[i].msg)>>
            /\ errAt = i - 1

C19_Witness ==
    /\ pc = "closed"
    /\ result = "timeout"
    /\ Len(Forwarded) >= 1
    /\ ErrorTracked = <<"error_timeout">>
    /\ errAt = Len(events) - 2

\* C12: in every planner completion the advertised function schema holds proc
\* if and only if the conversation's path list is non-empty at that moment,
\* and holds path, code and none in any case
C12_ProcAdvertisedIffPaths ==
    tpc = "chat" =>
        /\ "proc" \in functions <=> AllPaths(exchanges) # <<>>
        /\ {"path", "code", "none"} \subseteq functions

C12_Witness ==
    /\ tpc = "chat"
    /\ nActs = 3
    /\ AllPaths(SubSeq(exchanges, 1, Len(exchanges) - 1)) = <<>>
    /\ exchanges[Len(exchanges)].paths # <<>>
    /\ "proc" \in functions

\* the alias get_path_alias returns for p indexes p in the resulting path list,
\* and asking again, also after another path was asked for, returns it again
AliasOfIsStable(p) ==
    LET r == GetPathAlias(exchanges, p)
    IN  /\ ValidAlias(AllPaths(r.exs), r.alias)
        /\ AllPaths(r.exs)[r.alias + 1] = p
        /\ GetPathAlias(r.exs, p) = r
        /\ \A q \in 1..NumPaths :
              GetPathAlias(GetPathAlias(r.exs, q).exs, p).alias = r.alias

\* C13: every alias get_path_alias has returned in the turn still indexes its
\* path in paths(), a path never got two aliases, the alias of every stored
\* chunk indexes the chunk's path, the next call for any path returns such an
\* alias and repeats it; and no step of the turn moves a listed path
C13_AliasStable ==
    /\ [](LET ps == AllPaths(exchanges)
          IN  /\ \A pa \in given : ValidAlias(ps, pa[2]) /\ ps[pa[2] + 1] = pa[1]
              /\ \A pa, pb \in given : pa[1] = pb[1] => pa[2] = pb[2]
              /\ \A k \in 1..Len(AllChunks(exchanges)) :
                    LET c == AllChunks(exchanges)[k]
                    IN  ValidAlias(ps, c.alias) /\ ps[c.alias + 1] = c.path
              /\ \A p \in 1..NumPaths : AliasOfIsStable(p))
    /\ [][\A i \in 1..Len(AllPaths(exchanges)) :
             /\ i <= Len(AllPaths(exchanges'))
             /\ AllPaths(exchanges')[i] = AllPaths(exchanges)[i]]_vars

C13_Witness ==
    /\ tpc = "plan"
    /\ nActs = 3
    /\ tact.kind = "path"
    /\ AllPaths(SubSeq(exchanges, 1, Len(exchanges) - 1)) = <<>>
    /\ Len(exchanges[Len(exchanges)].paths) = 2
    /\ Len(ups) = 2
    /\ ups[2].response = Json(<< <<exchanges[Len(exchanges)].paths[2], 1>>,
                                 <<exchanges[Len(exchanges)].paths[1], 0>> >>)

\* C14: no exchange holds a code chunk whose snippet is empty once white space
\* is trimmed
C14_NoEmptyChunks ==
    \A i \in 1..Len(exchanges) :
        \A k \in 1..Len(exchanges[i].chunks) :
            Trim(exchanges[i].chunks[k].snippet) # <<>>

C14_Witness ==
    /\ tpc = "plan"
    /\ tact.kind = "code"
    /\ Len(ups) = 2
    /\ \E c1, c2 \in {CodeChunk(p, a, SnippetOf(p)) : p \in 1..NumPaths, a \in 0..NumPaths} :
          /\ c1.snippet = <<" ">>
          /\ c2.snippet = <<"x">>
          /\ ups[2].response = Json(<<c1, c2>>)
          /\ exchanges[Len(exchanges)].chunks = <<c2>>

IsTool(a) == a.kind \in {"path", "code", "proc"}

\* C15: a Path, Code or Proc action pushes StartStep, of its variant and query
\* and with an empty response, before it does any retrieval; the only step
\* update it pushes after that is one ReplaceStep of the same variant, query
\* and paths with the response; an action that returned to the planner has
\* pushed exactly these two, and Query and Answer push no step update
C15_StartThenReplace ==
    /\ Len(ups) <= 2
    /\ ~IsTool(tact) => ups = <<>>
    /\ reads > 0 => ups # <<>>
    /\ ups # <<>> =>
          /\ ups[1].kind = "StartStep"
          /\ ups[1].variant = tact.kind
          /\ ups[1].query = tact.query
          /\ ups[1].response = EmptyResponse
    /\ Len(ups) = 2 =>
          /\ ups[2].kind = "ReplaceStep"
          /\ ups[2].variant = ups[1].variant
          /\ ups[2].query = ups[1].query
          /\ ups[2].paths = ups[1].paths
          /\ ups[2].response # EmptyResponse
    /\ (IsTool(tact) /\ tpc \in {"plan", "chat"}) => Len(ups) = 2

C15_Witness ==
    /\ tpc = "chat"
    /\ tact.kind = "proc"
    /\ Len(ups) = 2
    /\ ups[2].paths # <<>>
    /\ ups[2].response # Json(<<>>)

HasInvalidAlias ==
    \E k \in 1..Len(tact.aliases) : ~ValidAlias(AllPaths(exchanges), tact.aliases[k])

\* C16: a Proc action with an alias that is no index of the path list gets no
\* further than the failure: the turn fails with `invalid path alias` naming
\* an alias of the action that is no index, no step update was pushed, nothing
\* was read, and the failing step leaves the exchanges as they were
C16_InvalidAliasFailsFirst ==
    /\ []((tact.kind = "proc" /\ HasInvalidAlias) =>
             /\ tpc \in {"step", "failed"}
             /\ ups = <<>> /\ reads = 0
             /\ tpc = "failed" =>
                   /\ terr.msg = "invalid path alias"
                   /\ \E k \in 1..Len(tact.aliases) : tact.aliases[k] = terr.alias
                   /\ ~ValidAlias(AllPaths(exchanges), terr.alias))
    /\ []((terr.msg = "invalid path alias") => (tact.kind = "proc" /\ HasInvalidAlias))
    /\ [][(tact.kind = "proc" /\ HasInvalidAlias) => exchanges' = exchanges]_vars

C16_Witness ==
    /\ tpc = "failed"
    /\ nActs = 3
    /\ Len(tact.aliases) = 2
    /\ ValidAlias(AllPaths(exchanges), tact.aliases[1])
    /\ terr = [msg |-> "invalid path alias", alias |-> tact.aliases[2]]

\* C17 as claimed: the failure of a file never ends the turn: a Proc action that
\* has pushed StartStep and not yet ReplaceStep is still processing its files
C17_FileFailureNotFatal ==
    (tact.kind = "proc" /\ Len(ups) = 1) => tpc = "reading"

ParentInThread == \E k \in 1..Len(loaded) : loaded[k].id = parent

\* the number of leading exchanges the request asks to keep
KeptCount ==
    IF parent = Absent THEN Len(loaded)
    ELSE IF ParentInThread
         THEN CHOOSE k \in 1..Len(loaded) : loaded[k].id = parent
         ELSE 0


\* C20: truncation only removes a suffix: when the turn starts, the exchanges
\* before the new one are exactly exchanges 0..k of the stored conversation,
\* unchanged and in order, for a parent that is exchange k; none for a nil
\* parent; all of them for no parent.  A parent that is not in the thread is a
\* user error: nothing is appended and no turn starts
C20_TruncationKeepsPrefix ==
    /\ tpc = "step" =>
          /\ parent \in {Absent, Nil} \/ ParentInThread
          /\ Len(exchanges) = KeptCount + 1
          /\ \A i \in 1..KeptCount : exchanges[i] = loaded[i]
          /\ exchanges[KeptCount + 1] = Exchange(QueryId, <<>>, <<>>)
    /\ (tpc # "request" /\ parent \notin {Absent, Nil} /\ ~ParentInThread) =>
          /\ tpc = "user_error"
          /\ exchanges = loaded

C20_Witness ==
    /\ tpc = "step"
    /\ Len(loaded) >= 2
    /\ parent = loaded[1].id
    /\ loaded[2].paths # <<>>
    /\ Len(exchanges) = 2

\* the aliases of the argument that index the path list, as a set
ValidAliasSet(paths, aliases) ==
    {aliases[k] : k \in 1..Len(aliases)} \cap 0..(Len(paths) - 1)

\* C21: Answer drops the aliases outside the path list; if exactly one alias
\* remains, the context is built from it alone, otherwise (none, or two or
\* more) from all indices 0..|paths|-1, in increasing order
C21_AnswerAliasFilter ==
    (fname = "answer_context" /\ fout # <<>>) =>
        LET valid == ValidAliasSet(fin.paths, fin.aliases)
            used == fout[1]
        IN  /\ \A i, j \in 1..Len(used) : i < j => used[i] < used[j]
            /\ IF Cardinality(valid) = 1
               THEN {used[k] : k \in 1..Len(used)} = valid
               ELSE {used[k] : k \in 1..Len(used)} = 0..(Len(fin.paths) - 1)

C21_Witness ==
    /\ fname = "answer_context"
    /\ Len(fin.paths) = 3
    /\ fin.aliases = <<1, 5, 1>> \/ fin.aliases = <<1, 3, 1>>
    /\ fout = << <<1>> >>

\* C22: a history returned by trim_history leaves at least HEADROOM tokens
\* for the completion, has the length of the input, and every system and
\* function-call message is the input's message at the same position
C22_TrimKeepsHeadroomAndSystem ==
    (fname = "trim_history" /\ fout # <<>> /\ fout[1].ok) =>
        LET out == fout[1].msgs
        IN  /\ CompletionMaxTokens(out) >= HEADROOM
            /\ Len(out) = Len(fin)
            /\ \A i \in 1..Len(fin) :
                   fin[i].role \in {"system", "function_call"} => out[i] = fin[i]

C22_Witness ==
    /\ fname = "trim_history" /\ fout # <<>> /\ fout[1].ok
    /\ Len(fin) = 4
    /\ fin[1].role = "system" /\ fin[3].role = "function_call"
    /\ fin[2].content = "long" /\ fout[1].msgs[2].content = HIDDEN

\* the history with its first k trimmable messages hidden
HiddenPrefix(h, k) ==
    [i \in 1..Len(h) |->
        IF Trimmable(h[i]) /\ Cardinality({j \in 1..i : Trimmable(h[j])}) <= k
        THEN Hide(h[i]) ELSE h[i]]

NumTrimmable(h) == Cardinality({j \in 1..Len(h) : Trimmable(h[j])})

\* C23: trim_history hides the oldest messages first and no more than needed:
\* the result is the input with its first k trimmable messages (user,
\* assistant, function return) hidden, for the smallest k that reaches the
\* headroom, the rest verbatim; it fails exactly when no k reaches it
C23_TrimOldestFirstMinimal ==
    (fname = "trim_history" /\ fout # <<>>) =>
        LET reach == {k \in 0..NumTrimmable(fin) :
                        CompletionMaxTokens(HiddenPrefix(fin, k)) >= HEADROOM}
        IN  IF \E k \in reach : \A j \in 0..(k - 1) : j \notin reach
            THEN /\ fout[1].ok
                 /\ \E k \in reach :
                       /\ \A j \in 0..(k - 1) : j \notin reach
                       /\ fout[1].msgs = HiddenPrefix(fin, k)
            ELSE ~fout[1].ok

C23_Witness ==
    /\ fname = "trim_history" /\ fout # <<>> /\ fout[1].ok
    /\ Len(fin) = 4
    /\ \A i \in 1..4 : Trimmable(fin[i])
    /\ fout[1].msgs[2].content = HIDDEN /\ fin[2].content # HIDDEN
    /\ fout[1].msgs[3] = fin[3] /\ fout[1].msgs[4] = fin[4]

C23_ErrorWitness ==
    /\ fname = "trim_history" /\ fout # <<>> /\ ~fout[1].ok
    /\ \E i \in 1..Len(fin) : Trimmable(fin[i])

IsPrefix(t, l) == Len(t) <= Len(l) /\ t = SubSeq(l, 1, Len(t))

\* C24 (as stated): trim_lines_by_tokens(L, max) returns a prefix of L whose
\* cumulative token count is strictly less than max, and all of L when the
\* total of L is below max
C24_PrefixBelowMax ==
    (fname = "trim_lines_by_tokens" /\ fout # <<>>) =>
        /\ IsPrefix(fout[1], fin.lines)
        /\ SumSeq(fout[1]) < fin.max_tokens
        /\ SumSeq(fin.lines) < fin.max_tokens => fout[1] = fin.lines

\* C24 (amended): trim_lines_by_tokens(L, max) returns the shortest prefix of
\* L whose cumulative token count reaches max (so every shorter prefix is
\* strictly below max and the last line returned may take the count to max
\* or above), and all of L when no prefix reaches max
C24_ShortestPrefixReachingMax ==
    (fname = "trim_lines_by_tokens" /\ fout # <<>>) =>
        /\ IsPrefix(fout[1], fin.lines)
        /\ \A n \in 0..(Len(fout[1]) - 1) :
               SumSeq(SubSeq(fin.lines, 1, n)) < fin.max_tokens
        /\ fout[1] = fin.lines \/ SumSeq(fout[1]) >= fin.max_tokens
        /\ SumSeq(fin.lines) < fin.max_tokens => fout[1] = fin.lines

C24_Witness ==
    /\ fname = "trim_lines_by_tokens" /\ fout # <<>>
    /\ fin.lines = <<2, 2, 1>> /\ fin.max_tokens = 3
    /\ fout[1] = <<2, 2>>

ChunkSet(cs) == {cs[k] : k \in 1..Len(cs)}

ContainedIn(b, a) == a.start <= b.start /\ b.end <= a.end

\* C26 (as stated): for a.start <= b.start, merge_overlapping(a, b) returns
\* none if and only if b is contained in a; otherwise it either extends a.end
\* to b.end or returns b unchanged, leaving a unchanged
C26_NoneIffContained ==
    (fname = "merge_overlapping" /\ fout # <<>>) =>
        /\ fout[1].ret = None <=> ContainedIn(fin.b, fin.a)
        /\ ~ContainedIn(fin.b, fin.a) =>
               \/ fout[1].a = [fin.a EXCEPT !.end = fin.b.end]
               \/ fout[1].ret = Some(fin.b) /\ fout[1].a = fin.a

\* C26 (amended): for a.start <= b.start, merge_overlapping(a, b) returns
\* none if and only if b starts at or before a.end; then a is left unchanged
\* if and only if b is contained in a, and otherwise a.end becomes b.end.
\* When b starts after a.end, b is returned unchanged and a is unchanged
C26_NoneIffOverlapping ==
    (fname = "merge_overlapping" /\ fout # <<>>) =>
        /\ fout[1].ret = None <=> fin.a.end >= fin.b.start
        /\ (fout[1].ret = None /\ fout[1].a = fin.a) <=> ContainedIn(fin.b, fin.a)
        /\ (fout[1].ret = None /\ ~ContainedIn(fin.b, fin.a)) =>
               fout[1].a = [fin.a EXCEPT !.end = fin.b.end]
        /\ fout[1].ret # None => fout[1].ret = Some(fin.b) /\ fout[1].a = fin.a

C26_Witness ==
    /\ fname = "merge_overlapping" /\ fout # <<>>
    /\ fin.a = Span(1, 3) /\ fin.b = Span(2, 4)
    /\ fout[1].ret = None /\ fout[1].a = Span(1, 4)

\* C27: after the cap, sort and dedup of the ranges of a file, two
\* consecutive ranges whose gap is at most CHUNK_MERGE_DISTANCE lines end up
\* in one output range that covers both (it starts at or before the smaller
\* start and ends at the larger end or later), and two consecutive ranges
\* further apart than that from everything before them stay separate
C27_MergedRangeCoversBoth ==
    (fname = "process_files" /\ fout # <<>>) =>
        LET rs == LineRanges(fin)
            out == fout[1]
        IN  \A i \in 1..(Len(rs) - 1) :
                /\ rs[i].end + CHUNK_MERGE_DISTANCE >= rs[i + 1].start =>
                       \E k \in 1..Len(out) :
                           /\ out[k].start <= rs[i].start
                           /\ out[k].end >= rs[i].end
                           /\ out[k].end >= rs[i + 1].end
                /\ (\A j \in 1..i : rs[j].end + CHUNK_MERGE_DISTANCE < rs[i + 1].start) =>
                       \E k \in 1..Len(out) : out[k].start = rs[i + 1].start

\* the example of the claim: 10-12, 18-20, 40-42 give 10-20, 40-42
C27_Example ==
    (fname = "process_files" /\ fout # <<>>
        /\ fin = <<Span(10, 12), Span(18, 20), Span(40, 42)>>) =>
        fout[1] = <<Span(10, 20), Span(40, 42)>>

\* C28: the path tool issues a semantic search if and only if the lexical
\* fuzzy match returned no result, never more than one, and the analytics
\* event it tracks records is_semantic = true exactly in that case
C28_SemanticIffNoLexical ==
    (fname = "path_search" /\ fout # <<>>) =>
        LET run == fout[1]
            semantic == {k \in 1..Len(run.searches) : run.searches[k] = "semantic"}
        IN  /\ semantic # {} <=> fin.lexical = <<>>
            /\ Cardinality(semantic) <= 1
            /\ \A k \in 1..Len(run.tracked) :
                   run.tracked[k].is_semantic <=> fin.lexical = <<>>
            /\ fin.lexical # <<>> => run.paths = fin.lexical

C28_Witness ==
    /\ fname = "path_search" /\ fout # <<>>
    /\ fin.lexical = <<>> /\ fin.semantic.ok /\ fin.semantic.paths # <<>>
    /\ fout[1].searches = <<"lexical", "semantic">>
    /\ fout[1].tracked # <<>> /\ fout[1].tracked[1].is_semantic

\* Agent::update is waiting in exchange_tx.send for room in the channel
SendSuspended == pc = "race" /\ ~running /\ ops # <<>> /\ Head(ops) = "send"

\* C29: the update channel never holds more than ChannelCapacity snapshots,
\* a send suspends only on a full channel, and while the client keeps
\* consuming the stream a suspended send always gets through (or the client
\* leaves): the step is never stuck, however many updates it pushes
C29_SendNeverStuck ==
    /\ [](Len(chan) <= ChannelCapacity)
    /\ [][(~SendSuspended /\ SendSuspended') => Len(chan) = ChannelCapacity]_vars
    /\ SendSuspended ~> ~SendSuspended
    /\ SendSuspended ~> (pc = "dropped" \/ (running /\ Len(pushed) \in {chan[k] : k \in 1..Len(chan)}))

C29_Witness ==
    /\ SendSuspended
    /\ action = "answer"
    /\ Len(chan) = ChannelCapacity
    /\ Len(pushed) > ChannelCapacity

C29_SentWitness ==
    /\ pc = "storing"
    /\ Len(pushed) > ChannelCapacity + 1
    /\ Len(Forwarded) = Len(pushed)

InFlight(futs) == Cardinality({i \in 1..Len(futs) : futs[i].st = "run"})

\* the paths of the action whose load and call succeed, in the order given
Succeeding == SelectSeq(fin, LAMBDA p : OutcomeOf(p) = "ok")

\* C30: during a Proc step at most 10 file loads and at most 5 per-file
\* calls of the language model are in flight at any time, and the
\* entries of the response are those of the files that did not fail, in the
\* order of the input aliases
C30_BoundedInFlightOrdered ==
    (fname = "process_files") =>
        /\ InFlight(pipe.loads) <= 10
        /\ InFlight(pipe.calls) <= 5
        /\ Len(pipe.out) <= Len(Succeeding)
        /\ pipe.out = SubSeq(Succeeding, 1, Len(pipe.out))
        /\ (fout # <<>> /\ ~fout[1].panicked) =>
               /\ Len(fout[1].entries) = Len(Succeeding)
               /\ \A k \in 1..Len(Succeeding) :
                      /\ fout[1].entries[k].path = Succeeding[k]
                      /\ fin[fout[1].entries[k].path_alias + 1] = Succeeding[k]

C30_Witness ==
    /\ fname = "process_files"
    /\ Len(fin) >= LoadBuffer + LlmBuffer
    /\ InFlight(pipe.loads) = LoadBuffer
    /\ InFlight(pipe.calls) = LlmBuffer

C30_ResponseWitness ==
    /\ fname = "process_files"
    /\ Len(fin) > LoadBuffer /\ fin[1] > fin[2]
    /\ fout # <<>> /\ ~fout[1].panicked
    /\ Len(fout[1].entries) >= 2 /\ Len(fout[1].entries) < Len(fin)

-----------------------------------------------------------------------------
\* C31: no call of update, get_path_alias or a chunk push adds or removes an
\* exchange or changes any field (query, search steps, paths, code chunks,
\* article, summary) of an exchange before the last one
C31_OnlyLastExchangeMutated ==
    [][/\ Len(exchanges') = Len(exchanges)
       /\ \A i \in 1..(Len(exchanges) - 1) : exchanges'[i] = exchanges[i]]_vars

\* the turn has written two search steps, a path, a chunk of a path an earlier
\* exchange listed, the article and the summary of its exchange, behind two
\* stored exchanges
C31_Witness ==
    /\ tpc = "agent"
    /\ Len(exchanges) = 3
    /\ exchanges[1].chunks # <<>> /\ exchanges[1].summary = Some("s")
    /\ LET e == exchanges[3]
       IN  /\ Len(e.search_steps) = 2
           /\ e.paths # <<>>
           /\ e.chunks # <<>> /\ e.chunks[1].alias = 0
           /\ e.article = Some("ab") /\ e.summary = Some("s")

-----------------------------------------------------------------------------
-----------------------------------------------------------------------------
NoDuplicate(ps) == \A i, j \in 1..Len(ps) : i # j => ps[i] # ps[j]

\* C33: from the loaded conversation through the truncation and the turn
\* behind it, paths() lists no path twice and the alias of every stored chunk
\* indexes the chunk's path in paths()
C33_PathsDistinctChunksAliased ==
    LET ps == AllPaths(exchanges)
        cs == AllChunks(exchanges)
    IN  /\ NoDuplicate(ps)
        /\ \A k \in 1..Len(cs) :
              ValidAlias(ps, cs[k].alias) /\ ps[cs[k].alias + 1] = cs[k].path

\* the truncation dropped an exchange that listed path 1 with alias 0; the new
\* turn found another path first, then path 1 again and stored a chunk of it
C33_Witness ==
    /\ tpc = "plan"
    /\ loaded # <<>> /\ loaded[1].paths = <<1>>
    /\ Len(exchanges) < Len(loaded) + 1
    /\ exchanges[Len(exchanges)].id = QueryId
    /\ AllPaths(exchanges) = <<2, 1>>
    /\ \E k \in 1..Len(exchanges[Len(exchanges)].chunks) :
          exchanges[Len(exchanges)].chunks[k] = CodeChunk(1, 1, <<"x">>)

-----------------------------------------------------------------------------
\* C34: when the Answer step has returned, the last update of the turn is a
\* Conclude; its summary is the footnote's exactly when the response had a
\* footnote behind its last fragment (the update before it is then the
\* Conclude of that fragment), and a fallback phrase otherwise
C34_AnswerEndsWithConclude ==
    (acts # <<>> /\ LastAct.kind = "answer" /\ LastAct.ret = "none") =>
        /\ pushed # <<>>
        /\ pushed[Len(pushed)] \in {"pushC", "pushD"}
        /\ pushed[Len(pushed)] = "pushC"
              <=> (Len(pushed) >= 2 /\ pushed[Len(pushed) - 1] = "pushC")
        /\ pushed[Len(pushed)] = "pushD"
              <=> (Len(pushed) = 1 \/ pushed[Len(pushed) - 1] \in {"pushA", "pushR"})

\* the answer model streamed no fragment: the only update of the Answer is the
\* Conclude with a fallback phrase
C34_Witness ==
    /\ acts # <<>> /\ LastAct.kind = "answer" /\ LastAct.ret = "none"
    /\ pushed = <<"pushD">>
    /\ result = "ok"

\* the response ended with a footnote
C34_FootnoteWitness ==
    /\ acts # <<>> /\ LastAct.kind = "answer" /\ LastAct.ret = "none"
    /\ Len(pushed) >= 4
    /\ SubSeq(pushed, Len(pushed) - 2, Len(pushed)) = <<"pushA", "pushC", "pushC">>

-----------------------------------------------------------------------------
\* the spans the loop of the running call started from
SpansAtStart == SpansByPath(AllChunks(pipe[1].exs), fin.aliases)

\* every iteration that sets `changed` merges two spans, clamps the end of a
\* span to the file, or adds a line of the file to what the spans cover
IterationBound ==
    1 + 2 * SumOver(Len, SpansAtStart, DOMAIN SpansAtStart)
      + SumSeq([k \in 1..NumPaths |-> IF k \in DOMAIN SpansAtStart THEN FileLines(k) ELSE 0])

\* C35: the while loop of canonicalize_code_chunks ends: it runs no more
\* iterations than its spans can merge, be clamped and grow within the files
C35_CanonicalizeTerminates ==
    (fname = "canonicalize_code_chunks" /\ pipe # <<>>) =>
        pipe[1].iterations <= IterationBound

\* the loop ran three iterations: one that grew the spans, one that merged
\* two spans of a file, and the one that changed nothing
C35_Witness ==
    /\ fname = "canonicalize_code_chunks" /\ pipe # <<>>
    /\ ~pipe[1].changed
    /\ pipe[1].iterations = 3
    /\ \E p \in DOMAIN pipe[1].by :
          /\ Len(SpansAtStart[p]) = 2
          /\ pipe[1].by[p] = <<Span(1, FileLines(p))>>
\* the spans of the chunks a call returned for a path, in the order returned
ReturnedSpans(chunks, p) ==
    LET mine == SelectSeq(chunks, LAMBDA c : c.path = p)
    IN  [i \in 1..Len(mine) |-> Span(mine[i].start_line, mine[i].end_line)]

\* the spans of a path are sorted and separated and end no later than `last`
SpansWithin(t, last) ==
    /\ \A i \in 1..(Len(t) - 1) : t[i].end < t[i + 1].start
    /\ \A i \in 1..Len(t) : 1 <= t[i].start /\ t[i].start <= t[i].end /\ t[i].end <= last

\* C36: the spans canonicalize_code_chunks returns for a path are sorted and
\* separated (each end is less than the next start) and lie within the file,
\* where an end is the line after the last line of the span and so may be
\* the file's line count plus one: 1 <= start <= end <= line count + 1
C36_ReturnedSpansSeparated ==
    fname = "canonicalize_code_chunks" =>
        \A k \in 1..Len(fout) : \A p \in 1..NumPaths :
            SpansWithin(ReturnedSpans(fout[k].chunks, p), FileLines(p) + 1)

\* C36 as stated: every returned span ends no later than the file's line count
C36_EndWithinLineCount ==
    fname = "canonicalize_code_chunks" =>
        \A k \in 1..Len(fout) : \A p \in 1..NumPaths :
            SpansWithin(ReturnedSpans(fout[k].chunks, p), FileLines(p))

\* a call returned two spans of a file, left as stored because their tokens
\* reach the limit, the second ending behind the last line of the file
C36_Witness ==
    /\ fname = "canonicalize_code_chunks" /\ fout # <<>>
    /\ \E p \in 1..NumPaths :
          LET t == ReturnedSpans(fout[1].chunks, p)
          IN  Len(t) = 2 /\ t[2].end = FileLines(p) + 1

\* the stored chunks the call selected by alias
SelectedChunks ==
    SelectSeq(AllChunks(fin.exs),
              LAMBDA c : \E k \in 1..Len(fin.aliases) : fin.aliases[k] = c.alias)

\* C37: every stored chunk of a selected alias has its lines
\* [start_line, end_line) within one of the spans returned for its path
C37_StoredChunksCovered ==
    fname = "canonicalize_code_chunks" =>
        \A k \in 1..Len(fout) : \A i \in 1..Len(SelectedChunks) :
            LET c == SelectedChunks[i]
                t == ReturnedSpans(fout[k].chunks, c.path)
            IN  \E j \in 1..Len(t) :
                    t[j].start <= c.start_line /\ c.end_line <= t[j].end

\* the tokens of the snippets of a list of chunks
ChunkTokens(chunks) ==
    SumSpanTokens([i \in 1..Len(chunks) |-> Span(chunks[i].start_line, chunks[i].end_line)])

\* C38: when the selected stored spans hold fewer tokens than half the
\* context size, the returned spans hold no more than half the context size
C38_ReturnedTokensBounded ==
    (fname = "canonicalize_code_chunks" /\ ChunkTokens(SelectedChunks) < MaxCodeTokens) =>
        \A k \in 1..Len(fout) : ChunkTokens(fout[k].chunks) <= MaxCodeTokens

\* C39: in answer_context neither `remaining_prompt_tokens - PROMPT_HEADROOM`
\* nor `remaining_prompt_tokens -= snippet_tokens` goes below zero, for every
\* path list and every chunk list, and remaining_prompt_tokens stays above
\* the headroom after each admitted chunk
C39_HeadroomNeverUnderflows ==
    (fname = "recent_chunks" /\ fout # <<>>) =>
        /\ ~fout[1].panicked /\ ~fout[1].wrapped
        /\ fout[1].recent # <<>> => fout[1].remaining > PROMPT_HEADROOM
====
